---- MODULE Spec2Model ----
(***************************************************************************)
(* One scrape run of ChiliPiperScraper (src/api/get-slots.py):             *)
(* fill_form_and_get_slots -> _scrape_slots -> fill_form,                  *)
(* get_available_slots -> get_current_week_slots -> navigate_to_next_week, *)
(* get_current_day_info.  The page is the environment: what every query    *)
(* returns is drawn nondeterministically at the step that asks for it, an  *)
(* automation fault may be raised at the awaits, and the 45 second         *)
(* deadline of asyncio.wait_for may expire at any suspension point.        *)
(* Faults are those of queries and clicks.  page.wait_for_timeout raises   *)
(* only when the page is gone, after which no control can be activated, so *)
(* a raising settle wait is modelled only where it ends the run or the     *)
(* loop (lines 87, 184 and 192), not where the run would go on to other    *)
(* controls (lines 323, 343, 352, 362, 369, 383, 417, 433, 440).           *)
(*                                                                         *)
(* Spec and FairSpec are that run.  ApiSpec is handler.do_POST of          *)
(* get-slots.py with auth_utils.py, answering requests one at a time;      *)
(* TokenSpec is the generate-token handler with secure_auth.py over time,  *)
(* followed by get-slots requests that present the issued tokens; PairSpec *)
(* is two runs in flight at once, followed week by week.  RateSpec is the  *)
(* generate-token handler alone, asked from two client addresses;          *)
(* AdminSpec is the manage-tokens handler over the tokens it issued;       *)
(* KeySpec is manual_auth.py (generate, validate, deactivate) over time;   *)
(* MergeSpec applies the week merge of get_available_slots repeatedly to   *)
(* any mapping a run can have collected.  AuthSpec is get-slots with       *)
(* auth_utils.add_token called at any moment; RaceSpec is two generate-    *)
(* token requests of one address in flight at once; DateSpec reads and     *)
(* merges different calendar days, whatever the page shows of them.        *)
(***************************************************************************)
EXTENDS Naturals, Sequences, FiniteSets, TLC

(* ------------------------------ bounds --------------------------------- *)
\* day buttons shown in one visible week
MaxButtons == 2
\* the count of week moves saturates here
MaxCount == 4
\* the counts of retries and self-calls of one collection saturate here
MaxDepth == 2
\* largest days_to_check a caller passes
MaxTarget == 2

(* ------------------------- program constants --------------------------- *)
max_weeks == 3

\* texts the page can show
current_year == "2025"
NoSpan == "<no span>"
\* span texts under the selected-day label: day number first, month second
SpanLists == {<<>>, <<"28", "Oct">>}
\* words of the aria-label (or text) of the selected day button
Labels == {<<"Tuesday", "Oct", "28">>}
\* slot elements under the detail panel: the span's text, or NoSpan
SlotElLists == {<<>>, <<NoSpan>>, <<"9:00">>, <<"9:00", NoSpan, "10:00">>}

VARIABLES
  pc,              \* position of the run's single flow of control
  days_to_check,   \* argument of fill_form_and_get_slots
  browser,         \* "none" | "open" | "closed"
  closes,          \* how many times an open browser was released
  deadline,        \* "pending" | "fired": the wait_for timer
  form,            \* "pending" | "submitted" | "failed": how fill_form ended
  stop,            \* why the loop or the run stopped, "" while it has not
  all_slots,       \* get_available_slots.all_slots, in insertion order
  week_count,      \* get_available_slots.week_count
  day_buttons,     \* get_current_week_slots.day_buttons (number of handles)
  enabled_buttons, \* get_current_week_slots.enabled_buttons still to visit
  week_slots,      \* get_current_week_slots.week_slots
  day_info,        \* last value of get_current_day_info (<<>> is None)
  dup_skips,       \* dates of the duplicate warnings of the latest merge
  shortfall,       \* the "Only found ..." warning was logged
  moves,           \* week moves: clicks on next-week, previous-week, next-month
  nav_log,         \* what the loop's navigation attempt activated, in order, kept
                   \* while the loop goes on: up to the next listing of day buttons
  retries,         \* settle-and-recheck rounds since the loop called collection
  depth,           \* self-calls of get_current_week_slots since the loop called it
  saw_enabled,     \* some check since the loop called collection found an enabled day
  outcome,         \* "running" | "returned" | "raised"
  result           \* value returned by fill_form_and_get_slots

pageVars == <<day_buttons, enabled_buttons, week_slots, day_info>>
aggVars == <<all_slots, week_count, dup_skips, shortfall>>
obsVars == <<moves, nav_log, retries, depth, saw_enabled>>
endVars == <<browser, closes, outcome, result>>
\* The state of the HTTP endpoints (src/api/get-slots.py handler.do_POST,
\* src/api/generate-token.py handler, with the module globals of
\* src/api/auth_utils.py and src/api/secure_auth.py)
VARIABLES
  now,              \* the clock, in seconds: time.time() and datetime.utcnow()
  env_tokens,       \* os.environ['API_TOKENS'] split at the commas
  VALID_TOKENS,     \* auth_utils.VALID_TOKENS
  TOKEN_STORE,      \* secure_auth.TOKEN_STORE: token hash -> metadata
  RATE_LIMIT_STORE, \* secure_auth.RATE_LIMIT_STORE: client ip -> timestamps
  request,          \* the request handled last
  slots,            \* do_POST.slots of that request as <<mapping>>, <<>> without scrape
  response          \* the response sent to it

apiVars == <<now, env_tokens, VALID_TOKENS, TOKEN_STORE, RATE_LIMIT_STORE,
             request, slots, response>>

\* before any request: the modules were imported, nothing else happened
NoRequest == [endpoint |-> "none"]
NoResponse == [status |-> 0]

ApiIdle ==
  /\ now = 0
  /\ env_tokens = <<>>
  /\ VALID_TOKENS = {}
  /\ TOKEN_STORE = <<>>
  /\ RATE_LIMIT_STORE = <<>>
  /\ request = NoRequest
  /\ slots = <<>>
  /\ response = NoResponse

\* Two scrape requests in flight at once, week by week: each is a call of
\* do_POST with its own ChiliPiperScraper, event loop, browser and page
VARIABLES
  r_calendar,    \* page -> the weeks that page can show, each a list of days
  r_shown,       \* page -> index of the week the page shows now
  r_pc,          \* run -> "idle" | "collect" | "navigate" | "close" | "done"
  r_page,        \* run -> the page it opened, 0 before the launch
  r_all_slots,   \* run -> get_available_slots.all_slots of its call
  r_week_count,  \* run -> get_available_slots.week_count of its call
  r_result       \* run -> the mapping returned to its do_POST

pairVars == <<r_calendar, r_shown, r_pc, r_page, r_all_slots, r_week_count, r_result>>

Runs == {1, 2}

\* no request in flight
PairIdle ==
  /\ r_calendar = [page \in Runs |-> <<>>]
  /\ r_shown = [page \in Runs |-> 1]
  /\ r_pc = [r \in Runs |-> "idle"]
  /\ r_page = [r \in Runs |-> 0]
  /\ r_all_slots = [r \in Runs |-> <<>>]
  /\ r_week_count = [r \in Runs |-> 0]
  /\ r_result = [r \in Runs |-> <<>>]

\* The modules that keep tokens and keys, called one call at a time:
\* last_check is what the last validate_token of secure_auth or the last
\* validate_manual_key returned and when it was called; MANUAL_API_KEYS and
\* KEY_METADATA are the dictionaries of manual_auth, KEY_METADATA as the
\* sequence of its items in insertion order, each with its key
VARIABLES
  last_check, MANUAL_API_KEYS, KEY_METADATA

keyVars == <<last_check, MANUAL_API_KEYS, KEY_METADATA>>

NoCheck == [fn |-> "none"]

\* seconds of a day (timedelta(days=...)); times are seconds since
\* 2024-10-25T00:00:00Z, the created_at of the keys written into manual_auth
Day == 86400
\* days from 2024-10-25 to the expires_at of the written keys: 2025-10-25,
\* and 2025-01-25 for demo_client
PresetDays == 365
DemoDays == 92

\* manual_auth lines 7-54 as the module is loaded, for the two kinds of
\* written key: vendor_1 (vendor_2 and internal_team differ from it in name
\* and key only) and demo_client
PresetKeys ==
  <<[key |-> "cp_live_abc123def456ghi789jkl012mno345pqr678stu901vwx234yz567",
     name |-> "vendor_1", created_at |-> 0, expires_at |-> PresetDays * Day,
     is_active |-> TRUE, last_used |-> <<>>],
    [key |-> "cp_live_demo_client_key_2024_secure_987654321fedcba",
     name |-> "demo_client", created_at |-> 0, expires_at |-> DemoDays * Day,
     is_active |-> TRUE, last_used |-> <<>>]>>

KeyIdle ==
  /\ last_check = NoCheck
  /\ MANUAL_API_KEYS = [n \in {"vendor_1", "demo_client"} |->
                          IF n = "vendor_1" THEN PresetKeys[1].key
                          ELSE PresetKeys[2].key]
  /\ KEY_METADATA = PresetKeys

\* The merge of lines 164-176 looked at on its own: m_first is the aggregate
\* it starts from, m_log the day candidates merged so far, m_all_slots the
\* aggregate now
VARIABLES
  m_first, m_log, m_all_slots

mergeVars == <<m_first, m_log, m_all_slots>>

MergeIdle == m_first = <<>> /\ m_log = <<>> /\ m_all_slots = <<>>

\* generate-token requests in flight at once: h_pc is where each handler
\* stands in lines 39-59 ("idle" before the request, "checked" after
\* is_rate_limited returned False, "stored" after store_token), h_token the
\* token its generate_secure_token returned
VARIABLES
  h_pc, h_token

raceVars == <<h_pc, h_token>>

Handlers == {1, 2}

RaceIdle == h_pc = [h \in Handlers |-> "idle"] /\ h_token = [h \in Handlers |-> ""]

\* The date keys looked at on their own: v_days is the calendar days a run
\* has visited, each with what the page showed of it and the day
\* information read from that; v_all_slots is the aggregate of those days
VARIABLES
  v_days, v_all_slots

dateVars == <<v_days, v_all_slots>>

DateIdle == v_days = <<>> /\ v_all_slots = <<>>

\* what no step of a run changes
fixedVars == <<days_to_check, apiVars, pairVars, keyVars, mergeVars, raceVars, dateVars>>
\* the variables of one run, and the merge on its own
runOnly == <<pc, days_to_check, deadline, form, stop, pageVars, aggVars, obsVars,
             endVars, mergeVars, raceVars, dateVars>>
soloVars == <<runOnly, keyVars>>
runVars == <<soloVars, pairVars>>
vars == <<pc, fixedVars, deadline, form, stop, pageVars, aggVars, obsVars, endVars>>

(* ----------------------------- helpers --------------------------------- *)
Min(a, b) == IF a < b THEN a ELSE b
Bump(n) == Min(n + 1, MaxDepth)

\* mutant of Increasing: the enabled buttons are listed last first
RECURSIVE LastFirst(_)
LastFirst(n) ==
  IF n = 0 THEN {<<>>}
  ELSE LastFirst(n - 1) \cup {<<n>> \o s : s \in LastFirst(n - 1)}

\* strictly increasing sequences of button numbers i+1 among n handles
RECURSIVE Increasing(_)
Increasing(n) ==
  IF n = 0 THEN {<<>>}
  ELSE Increasing(n - 1) \cup {Append(s, n) : s \in Increasing(n - 1)}

(* ------------------------ get_current_day_info ------------------------- *)
\* f"{month} {day_number}, {current_year}", "Unknown" for a span that is missing
DateStr(spans) ==
  LET day_number == IF Len(spans) > 0 THEN spans[1] ELSE "Unknown"
      month == IF Len(spans) > 1 THEN spans[2] ELSE "Unknown"
  IN month \o " " \o day_number \o ", " \o current_year

\* button_text.split()[0] if button_text else "Unknown"
DayName(label) == IF label = <<>> THEN "Unknown" ELSE label[1]

\* the texts of the slot elements that have a span, in page order
RECURSIVE TimeSlots(_)
TimeSlots(els) ==
  IF els = <<>> THEN <<>>
  ELSE IF Head(els) = NoSpan THEN TimeSlots(Tail(els))
  ELSE <<Head(els)>> \o TimeSlots(Tail(els))

\* None (<<>>) when the selected day or its label is missing or a read raises
GetCurrentDayInfo(found, spans, label, els) ==
  IF ~found THEN <<>>
  ELSE <<[day_name |-> DayName(label), date |-> DateStr(spans),
          slots |-> TimeSlots(els)]>>

\* mutant of KeepDay: the slots test of line 388 is dropped
KeepDayAny(info) == info # <<>>

\* line 388: only a day that was read and has slots joins the week's list
KeepDay(info) == info # <<>> /\ info[1].slots # <<>>

(* ------------------------ navigate_to_next_week ------------------------ *)
ControlStates == {"absent", "disabled", "enabled"}

\* TRUE when the next-week control, or else the next-month control of the
\* month/year picker, was clicked; FALSE also when a query or click raises
\* (line 445).
NavigateToNextWeek(next, month, nextMonth, fault) ==
  IF fault THEN FALSE
  ELSE IF next = "enabled" THEN TRUE
  ELSE month /\ nextMonth = "enabled"

\* mutant of NavLogs: the month/year picker is opened whether or not the
\* next-week control was clicked
NavLogsPickerAlways(next, month, nextMonth, fault) ==
  LET full == (IF next = "enabled" THEN <<"next">> ELSE <<>>)
              \o (IF ~month THEN <<>>
                  ELSE IF nextMonth = "enabled" THEN <<"picker", "next_month">>
                  ELSE <<"picker">>) IN
  IF fault THEN {SubSeq(full, 1, k) \o <<"fault">> : k \in 0..Len(full)}
  ELSE {full}

\* what navigate_to_next_week activated, in order: the next-week control, or
\* else the month/year picker and then its next-month control; a query, click
\* or wait that raises ends the call after any of them
NavLogs(next, month, nextMonth, fault) ==
  LET full == IF next = "enabled" THEN <<"next">>
              ELSE IF ~month THEN <<>>
              ELSE IF nextMonth = "enabled" THEN <<"picker", "next_month">>
              ELSE <<"picker">> IN
  IF fault THEN {SubSeq(full, 1, k) \o <<"fault">> : k \in 0..Len(full)}
  ELSE {full}

\* what one call of navigate_to_next_week can come to, whatever the page
\* holds: its return value and the controls it activated
NavOutcomes ==
  UNION {{<<NavigateToNextWeek(next, month, nextMonth, fault), log>> :
            log \in NavLogs(next, month, nextMonth, fault)} :
           next \in ControlStates, month \in BOOLEAN, nextMonth \in ControlStates,
           fault \in BOOLEAN}

\* what one call of get_current_day_info can return, whatever the page holds
DayInfos ==
  {GetCurrentDayInfo(found, spans, label, els) :
     found \in BOOLEAN, spans \in SpanLists, label \in Labels, els \in SlotElLists}

(* --------------------------- DedupAggregator --------------------------- *)
Dates(agg) == {agg[i].date : i \in DOMAIN agg}

\* mutant of Merge: every candidate is stored, its date present or not
MergeAppendAll(agg, week) == agg \o week

\* mutant of Merge: a repeated date overwrites the stored entry
RECURSIVE MergeOverwrite(_, _)
MergeOverwrite(agg, week) ==
  IF week = <<>> THEN agg
  ELSE IF Head(week).date \in Dates(agg)
    THEN MergeOverwrite([i \in DOMAIN agg |->
                           IF agg[i].date = Head(week).date THEN Head(week) ELSE agg[i]],
                        Tail(week))
  ELSE MergeOverwrite(Append(agg, Head(week)), Tail(week))

\* lines 164-176: insert a day under its date only if the date is absent
RECURSIVE Merge(_, _)
Merge(agg, week) ==
  IF week = <<>> THEN agg
  ELSE IF Head(week).date \in Dates(agg) THEN Merge(agg, Tail(week))
  ELSE Merge(Append(agg, Head(week)), Tail(week))

\* line 176: the dates the duplicate warning is logged for, in order
RECURSIVE Duplicates(_, _)
Duplicates(agg, week) ==
  IF week = <<>> THEN <<>>
  ELSE IF Head(week).date \in Dates(agg)
    THEN <<Head(week).date>> \o Duplicates(agg, Tail(week))
  ELSE Duplicates(Append(agg, Head(week)), Tail(week))

(* --------------------------- exits of the run -------------------------- *)
\* mutant of PlaywrightExit: leaving the block releases nothing
PlaywrightExitLeak(b) == b

\* line 40: leaving "async with async_playwright()" stops the driver, which
\* closes a browser that is still open
PlaywrightExit(b) == IF b = "open" THEN "closed" ELSE b

\* mutant of Catch: only the TimeoutError handler of line 29 is there
CatchTimeoutOnly(exc) == IF exc = "TimeoutError" THEN "returned" ELSE "raised"

\* lines 29-34: what fill_form_and_get_slots does with an exception
Catch(exc) == IF exc \in {"TimeoutError", "Exception"} THEN "returned" ELSE "raised"

\* line 157
LoopGuard(wc) == wc < max_weeks

\* mutant of AfterMerge: the loop is left once the target is met
AfterMergeEarlyStop(n, target) == IF n >= target THEN "gas_return" ELSE "nav_next"

\* lines 178-182: after the merge of a week holding n days in all, with
\* days_to_check = target, the loop always goes on to navigation
AfterMerge(n, target) == "nav_next"

\* mutant of AfterFill: fill_form logs the failure and returns
AfterFillSwallow(missing) == "calendar_wait"

\* lines 84-87, 139-141: where the run goes after fill_form; missing = 0 when
\* all five steps succeeded, else the number of the step that raised and
\* that fill_form re-raises
AfterFill(missing) == IF missing = 0 THEN "calendar_wait" ELSE "raise"

\* lines 29-31: what fill_form_and_get_slots returns when wait_for times out
OnTimeout == <<>>

\* mutant of OnLoopFault: the handler of the loop returns {}
OnLoopFaultEmpty(agg) == <<>>

\* lines 199-211: "except Exception: break" in the loop, then
\* "return all_slots": what get_available_slots returns with aggregate agg
OnLoopFault(agg) == agg

(* ------------------------------- Init ---------------------------------- *)
RunInit ==
  /\ pc = "launch"
  /\ days_to_check \in 1..MaxTarget
  /\ browser = "none"
  /\ closes = 0
  /\ deadline = "pending"
  /\ form = "pending"
  /\ stop = ""
  /\ all_slots = <<>>
  /\ week_count = 0
  /\ day_buttons = 0
  /\ enabled_buttons = <<>>
  /\ week_slots = <<>>
  /\ day_info = <<>>
  /\ dup_skips = <<>>
  /\ shortfall = FALSE
  /\ moves = 0
  /\ nav_log = <<>>
  /\ retries = 0
  /\ depth = 0
  /\ saw_enabled = FALSE
  /\ outcome = "running"
  /\ result = <<>>

\* one call of fill_form_and_get_slots, looked at on its own
Init == RunInit /\ ApiIdle /\ PairIdle /\ KeyIdle /\ MergeIdle /\ RaceIdle /\ DateIdle

(* --------------------- leaving the run by an exception ----------------- *)
\* the frames of get_current_week_slots are gone once the run has ended
Unwind ==
  /\ day_buttons' = 0
  /\ enabled_buttons' = <<>>
  /\ week_slots' = <<>>
  /\ day_info' = <<>>
  /\ retries' = 0
  /\ depth' = 0
  /\ saw_enabled' = FALSE
  /\ dup_skips' = <<>>
  /\ nav_log' = <<>>

\* An exception raised in _scrape_slots while the browser is in state b leaves
\* the "async with" block, is re-raised at line 114 and reaches the handlers
\* of fill_form_and_get_slots, which return {}.
AbortWith(b, exc) ==
  /\ pc' = "done"
  /\ stop' = "abort"
  /\ browser' = PlaywrightExit(b)
  /\ closes' = IF b = "open" /\ PlaywrightExit(b) = "closed" THEN closes + 1 ELSE closes
  /\ outcome' = Catch(exc)
  /\ result' = <<>>
  /\ Unwind
  /\ UNCHANGED <<fixedVars, deadline, all_slots, week_count, shortfall, moves>>

Abort(exc) == AbortWith(browser, exc) /\ UNCHANGED form

(* ------------------------------ _scrape_slots -------------------------- *)
\* lines 40-77: start the driver, launch the browser, open context and page
Launch ==
  /\ pc = "launch"
  /\ \E r \in {"ok", "no_browser", "no_page"} :
       IF r = "ok"
         THEN /\ pc' = "goto"
              /\ browser' = "open"
              /\ UNCHANGED <<fixedVars, deadline, form, stop, pageVars, aggVars, obsVars,
                             closes, outcome, result>>
       ELSE IF r = "no_browser" THEN AbortWith("none", "Exception") /\ UNCHANGED form
       ELSE AbortWith("open", "Exception") /\ UNCHANGED form

\* line 81
Goto ==
  /\ pc = "goto"
  /\ \E ok \in BOOLEAN :
       IF ok
         THEN /\ pc' = "fill_form"
              /\ UNCHANGED <<fixedVars, deadline, form, stop, pageVars, aggVars, obsVars, endVars>>
         ELSE Abort("Exception")

\* lines 84, 116-141: missing = 0 when the first-name field appears and the
\* four fills and the submit click succeed, else the number of the step
\* (1..4 the inputs, 5 the submit button) that raises; fill_form re-raises
FillForm ==
  /\ pc = "fill_form"
  /\ \E missing \in 0..5 :
       /\ form' = IF missing = 0 THEN "submitted" ELSE "failed"
       /\ IF AfterFill(missing) = "raise"
            THEN AbortWith(browser, "Exception")
            ELSE /\ pc' = AfterFill(missing)
                 /\ UNCHANGED <<fixedVars, deadline, stop, pageVars, aggVars, obsVars,
                                endVars>>

\* lines 87-105: the settle wait, then the wait for the calendar, whose own
\* failure is swallowed at line 103; a raising wait_for_timeout is not
CalendarWait ==
  /\ pc = "calendar_wait"
  /\ \E ok \in BOOLEAN :
       IF ok
         THEN /\ pc' = "gas_wait"
              /\ UNCHANGED <<fixedVars, deadline, form, stop, pageVars, aggVars, obsVars, endVars>>
         ELSE Abort("Exception")

\* lines 109-110: browser.close() and the return of slots through
\* fill_form_and_get_slots; a raising close leaves by the exception path
CloseBrowser ==
  /\ pc = "close"
  /\ \E ok \in BOOLEAN :
       IF ok
         THEN /\ pc' = "done"
              /\ browser' = PlaywrightExit("closed")
              /\ closes' = closes + 1
              /\ outcome' = "returned"
              /\ result' = all_slots
              /\ UNCHANGED <<fixedVars, deadline, form, stop, pageVars, aggVars, obsVars>>
         ELSE Abort("Exception")

(* --------------------------- get_available_slots ----------------------- *)
\* line 157: where the loop goes with week_count = wc
LoopNext(wc) == IF LoopGuard(wc) THEN "week_enum" ELSE "gas_return"

AddMoves(n) == Min(moves + n, MaxCount)

\* mutant of AfterPrev: without the previous-week control the loop goes
\* round again instead of breaking
AfterPrevContinue(counted, wc) == LoopNext(IF counted THEN wc + 1 ELSE wc)

\* lines 189-201: after the previous-week fallback with week_count = wc:
\* the next iteration if the week was counted, else break
AfterPrev(counted, wc) == IF counted THEN LoopNext(wc + 1) ELSE "gas_return"

\* lines 145-155: the wait for the first day button; if it raises, the
\* handler at line 213 returns {}
GasStart ==
  /\ pc = "gas_wait"
  /\ \E ok \in BOOLEAN :
       /\ pc' = IF ok THEN LoopNext(0) ELSE "close"
       /\ stop' = IF ok THEN stop ELSE "no_calendar"
       /\ all_slots' = <<>>
       /\ week_count' = 0
       /\ UNCHANGED <<fixedVars, deadline, form, pageVars, dup_skips, shortfall,
                      obsVars, endVars>>

\* lines 162-178: merge the week's days, then go on to navigation
MergeWeek ==
  /\ pc = "merge"
  /\ pc' = AfterMerge(Len(Merge(all_slots, week_slots)), days_to_check)
  /\ all_slots' = Merge(all_slots, week_slots)
  /\ dup_skips' = Duplicates(all_slots, week_slots)
  /\ retries' = 0
  /\ depth' = 0
  /\ saw_enabled' = FALSE
  /\ UNCHANGED <<fixedVars, deadline, form, stop, pageVars, week_count, shortfall, moves,
                 nav_log, endVars>>

\* the frame of get_current_week_slots is gone when the loop navigates; the
\* week it returned stays in week_slots until line 161 of the next iteration
\* replaces it (keep = FALSE)
ForgetWeek(keep) ==
  /\ day_buttons' = 0
  /\ enabled_buttons' = <<>>
  /\ day_info' = <<>>
  /\ week_slots' = IF keep THEN week_slots ELSE <<>>
  /\ dup_skips' = IF keep THEN dup_skips ELSE <<>>

\* lines 182-185: navigate_to_next_week; on True count the week and settle
\* (a raising settle wait breaks at line 199 with the week already counted)
LoopNavNext ==
  /\ pc = "nav_next"
  /\ \E out \in NavOutcomes : \E waitOk \in (IF out[1] THEN BOOLEAN ELSE {TRUE}) :
       LET moved == out[1]
           log == out[2] IN
       /\ moves' = AddMoves(IF moved THEN 1 ELSE 0)
       /\ nav_log' = IF moved /\ ~(waitOk /\ LoopGuard(week_count + 1))
                       THEN <<>> ELSE log
       /\ week_count' = IF moved THEN week_count + 1 ELSE week_count
       /\ pc' = IF ~moved THEN "nav_prev"
                ELSE IF waitOk THEN LoopNext(week_count + 1) ELSE "gas_return"
       /\ stop' = IF ~moved THEN stop
                  ELSE IF ~waitOk THEN "fault"
                  ELSE IF LoopGuard(week_count + 1) THEN stop ELSE "ceiling"
       /\ all_slots' = IF moved /\ ~waitOk THEN OnLoopFault(all_slots) ELSE all_slots
       /\ ForgetWeek(~(moved /\ waitOk /\ LoopGuard(week_count + 1)))
       /\ UNCHANGED <<fixedVars, deadline, form,
                      shortfall, retries, depth, saw_enabled, endVars>>

\* mutant of CountPrev: a move to the previous week is not counted
CountPrevNot(wc) == wc

\* line 194: week_count after a move to the previous week
CountPrev(wc) == wc + 1

\* lines 186-201: the previous-week fallback of the loop, or break; a settle
\* wait that raises after the click breaks before the week is counted
LoopNavPrev ==
  /\ pc = "nav_prev"
  /\ \E prev \in ControlStates, fault \in BOOLEAN, waitOk \in BOOLEAN :
       LET clicked == prev = "enabled" /\ ~fault
           counted == clicked /\ waitOk
           raised == fault \/ (clicked /\ ~waitOk) IN
       /\ moves' = AddMoves(IF clicked THEN 1 ELSE 0)
       /\ nav_log' = IF AfterPrev(counted, week_count) = "week_enum"
                       THEN nav_log \o <<"prev">> ELSE <<>>
       /\ week_count' = IF counted THEN CountPrev(week_count) ELSE week_count
       /\ pc' = AfterPrev(counted, week_count)
       /\ stop' = IF raised THEN "fault"
                  ELSE IF ~counted THEN "dead_end"
                  ELSE IF LoopGuard(week_count + 1) THEN stop ELSE "ceiling"
       /\ all_slots' = IF raised THEN OnLoopFault(all_slots) ELSE all_slots
       /\ IF AfterPrev(counted, week_count) = "week_enum"
            THEN ForgetWeek(FALSE) ELSE UNCHANGED <<pageVars, dup_skips>>
       /\ UNCHANGED <<fixedVars, deadline, form,
                      shortfall, retries, depth, saw_enabled, endVars>>

\* lines 203-211: the shortfall warning and the return of all_slots
GasReturn ==
  /\ pc = "gas_return"
  /\ pc' = "close"
  /\ shortfall' = (Len(all_slots) < days_to_check)
  /\ nav_log' = <<>>
  /\ UNCHANGED <<fixedVars, deadline, form, stop, pageVars, all_slots, week_count,
                 dup_skips, moves, retries, depth, saw_enabled, endVars>>

(* -------------------------- get_current_week_slots --------------------- *)
\* "return []" at lines 374 and 403
ReturnEmptyWeek ==
  /\ pc' = "merge"
  /\ week_slots' = <<>>
  /\ enabled_buttons' = <<>>

\* "return await self.get_current_week_slots(page)" at lines 344, 354, 371
Recurse ==
  /\ pc' = "week_enum"
  /\ depth' = Bump(depth)
  /\ week_slots' = <<>>
  /\ enabled_buttons' = <<>>

\* lines 283-318: list the day buttons and keep those that are enabled; a
\* button whose check raises is left out like a disabled one
EnumerateDays ==
  /\ pc = "week_enum"
  /\ \E ok \in BOOLEAN, n \in 0..MaxButtons :
       \E en \in Increasing(n) :
         /\ IF ~ok
              THEN /\ ReturnEmptyWeek
                   /\ UNCHANGED <<day_buttons, saw_enabled>>
              ELSE /\ day_buttons' = n
                   /\ enabled_buttons' = en
                   /\ week_slots' = <<>>
                   /\ saw_enabled' = (saw_enabled \/ en # <<>>)
                   /\ pc' = IF en = <<>> THEN "week_retry" ELSE "week_day"
         /\ nav_log' = <<>>
         /\ UNCHANGED <<fixedVars, deadline, form, stop, day_info, aggVars, moves,
                        retries, depth, endVars>>

\* lines 321-337: one settle wait, then the enabled check again on the same
\* button handles; the buttons found now are kept in enabled_buttons, but the
\* month/year block at line 356 follows in either case
RetryCheck ==
  /\ pc = "week_retry"
  /\ \E en \in Increasing(day_buttons) :
         /\ enabled_buttons' = en
         /\ week_slots' = <<>>
         /\ retries' = Bump(retries)
         /\ saw_enabled' = (saw_enabled \/ en # <<>>)
         /\ pc' = IF en = <<>> THEN "week_nav_next" ELSE "week_month"
         /\ UNCHANGED <<fixedVars, deadline, form, stop, day_buttons, day_info, aggVars,
                        moves, nav_log, depth, endVars>>

\* lines 341-344: still no enabled day: navigate_to_next_week and, on True,
\* settle and start over on the new week
CollectorNavNext ==
  /\ pc = "week_nav_next"
  /\ \E moved \in {out[1] : out \in NavOutcomes} :
       /\ moves' = AddMoves(IF moved THEN 1 ELSE 0)
       /\ IF moved THEN Recurse
          ELSE /\ pc' = "week_nav_prev"
               /\ UNCHANGED <<depth, week_slots, enabled_buttons>>
       /\ UNCHANGED <<fixedVars, deadline, form, stop, day_buttons, day_info, aggVars,
                      nav_log, retries, saw_enabled, endVars>>

\* lines 346-354: the previous-week control, and on a click start over
CollectorNavPrev ==
  /\ pc = "week_nav_prev"
  /\ \E prev \in ControlStates, fault \in BOOLEAN :
       LET clicked == prev = "enabled" /\ ~fault IN
       /\ moves' = AddMoves(IF clicked THEN 1 ELSE 0)
       /\ IF clicked THEN Recurse
          ELSE IF fault THEN ReturnEmptyWeek /\ UNCHANGED depth
          ELSE /\ pc' = "week_month"
               /\ UNCHANGED <<depth, week_slots, enabled_buttons>>
       /\ UNCHANGED <<fixedVars, deadline, form, stop, day_buttons, day_info, aggVars,
                      nav_log, retries, saw_enabled, endVars>>

\* lines 356-374: open the month/year picker, click next-month if it is
\* enabled and start over, else return []
CollectorMonth ==
  /\ pc = "week_month"
  /\ \E month \in BOOLEAN, nextMonth \in ControlStates, fault \in BOOLEAN :
       LET clicked == month /\ nextMonth = "enabled" /\ ~fault IN
       /\ moves' = AddMoves(IF clicked THEN 1 ELSE 0)
       /\ IF clicked THEN Recurse
          ELSE ReturnEmptyWeek /\ UNCHANGED depth
       /\ UNCHANGED <<fixedVars, deadline, form, stop, day_buttons, day_info, aggVars,
                      nav_log, retries, saw_enabled, endVars>>

\* mutant of AfterDay: a day whose click raises ends the week
AfterDayBreak(clickOk, rest) ==
  IF rest = <<>> \/ ~clickOk THEN "merge" ELSE "week_day"

\* lines 376 and 394-399: after a day, clicked or not, the next enabled
\* button, and the return after the last
AfterDay(clickOk, rest) == IF rest = <<>> THEN "merge" ELSE "week_day"

\* lines 376-399: click the next enabled day button, settle, read the day;
\* a raising click skips the day (line 394); after the last day return
ProcessDay ==
  /\ pc = "week_day"
  /\ \E clickOk \in BOOLEAN : \E info \in (IF clickOk THEN DayInfos ELSE {<<>>}) :
       /\ day_info' = IF clickOk THEN info ELSE day_info
       /\ week_slots' = IF clickOk /\ KeepDay(info)
                          THEN Append(week_slots, info[1]) ELSE week_slots
       /\ enabled_buttons' = Tail(enabled_buttons)
       /\ pc' = AfterDay(clickOk, Tail(enabled_buttons))
       /\ UNCHANGED <<fixedVars, deadline, form, stop, day_buttons, aggVars, obsVars, endVars>>

(* --------------------------- the 45 s deadline ------------------------- *)
\* lines 25-31: wait_for cancels the task at its current await; the
\* CancelledError passes every "except Exception", leaves the "async with"
\* block, and wait_for raises TimeoutError, for which {} is returned
Timeout ==
  /\ pc # "done"
  /\ deadline = "pending"
  /\ deadline' = "fired"
  /\ pc' = "done"
  /\ browser' = PlaywrightExit(browser)
  /\ closes' = IF browser = "open" /\ PlaywrightExit(browser) = "closed"
                 THEN closes + 1 ELSE closes
  /\ outcome' = Catch("TimeoutError")
  /\ stop' = "deadline"
  /\ result' = OnTimeout
  /\ Unwind
  /\ UNCHANGED <<fixedVars, form, all_slots, week_count, shortfall, moves>>

\* lines 294-300: the bare "except: continue" of the button listing also
\* catches the CancelledError when the deadline expires at one of its awaits;
\* the timer is spent and the run goes on as if nothing had happened
TimeoutSwallowed ==
  /\ pc = "week_enum"
  /\ deadline = "pending"
  /\ deadline' = "fired"
  /\ UNCHANGED <<pc, fixedVars, form, stop, pageVars, aggVars, obsVars, endVars>>

(* ------------------------------ the run -------------------------------- *)
\* the steps of the run's own flow of control
Step ==
  \/ Launch \/ Goto \/ FillForm \/ CalendarWait \/ GasStart
  \/ EnumerateDays \/ RetryCheck \/ CollectorNavNext \/ CollectorNavPrev
  \/ CollectorMonth \/ ProcessDay \/ MergeWeek \/ LoopNavNext \/ LoopNavPrev
  \/ GasReturn \/ CloseBrowser

Next == Step \/ Timeout \/ TimeoutSwallowed

Spec == Init /\ [][Next]_vars

\* The event loop resumes the coroutine after every await, so a step that is
\* possible is eventually taken; nothing obliges the deadline to expire.
FairSpec == Init /\ [][Next]_vars /\ WF_vars(Step)

(* ========================== the HTTP endpoints ========================= *)
\* Requests are handled one after the other, each by one of the handlers
\* below; between them time may pass.  What a scrape returns to do_POST is
\* any mapping a run can return (Spec above is the run itself).  ApiSpec is
\* the get-slots endpoint under every kind of request; TokenSpec is the
\* generate-token endpoint over time, with clients that present the tokens
\* they were issued to get-slots.

(* ------------------------------ bounds --------------------------------- *)
\* tokens issued by generate-token in all
MaxIssued == 5
\* tokens handed out at most when two addresses ask: one more than the limit
MaxRated == 6

(* ------------------------- program constants --------------------------- *)
\* secure_auth.is_rate_limited: "len(...) >= 5" within the last 3600 seconds
RateLimit == 5
Hour == 3600
\* secure_auth.store_token: timedelta(days=30), in seconds
TokenLifetime == 2592000
\* generate-token: 'retry_after': 3600
RetryAfter == 3600

DemoTokens == {"demo-token-12345", "test-token-67890"}
TimezoneLabel == "GMT-05:00 America/Chicago (CDT)"
required_fields == <<"first_name", "last_name", "email", "phone">>
\* the 'expires_at' text of every generate-token response
ExpiresAtText == "2024-12-31T23:59:59Z"

(* ------------------------------- inputs -------------------------------- *)
\* settings of API_TOKENS: unset, or one token
EnvSettings == {<<>>, <<"env-token-1">>}
ClientIPs == {"203.0.113.7", "198.51.100.9"}
RequiredSet == {required_fields[i] : i \in DOMAIN required_fields}
\* request bodies: no Content-Length header, text that is no JSON, a JSON
\* object with the named keys, a JSON list with the named strings
Bodies ==
  {[kind |-> "no_length", names |-> {}], [kind |-> "malformed", names |-> {}],
   [kind |-> "list", names |-> RequiredSet], [kind |-> "object", names |-> {}]}
  \cup {[kind |-> "object", names |-> RequiredSet \ {f}] : f \in RequiredSet}
  \cup {[kind |-> "object", names |-> RequiredSet]}

\* the days a run can store: read from the page and kept
StoredDays ==
  {info[1] : info \in {i \in {GetCurrentDayInfo(TRUE, spans, label, els) :
                                spans \in SpanLists, label \in Labels,
                                els \in SlotElLists} : KeepDay(i)}}

\* the mappings fill_form_and_get_slots can return: stored days in any
\* order, one per date
RunResults ==
  {agg \in UNION {[1..n -> StoredDays] : n \in 0..Cardinality(StoredDays)} :
     \A i, j \in DOMAIN agg : agg[i].date = agg[j].date => i = j}

(* ------------------------------ auth_utils ----------------------------- *)
Range(seq) == {seq[i] : i \in DOMAIN seq}

\* an Authorization header is <<>> when absent or empty, else its text cut
\* after a leading 'Bearer '; lines 31-33 drop that prefix
StripBearer(header) ==
  IF Len(header) = 2 /\ header[1] = "Bearer " THEN header[2] ELSE header[1]

\* lines 9-24
LoadTokens(valid, env) == valid \cup Range(env) \cup DemoTokens

\* lines 26-42: the verdict, and VALID_TOKENS after the call
ValidateToken(header, valid, env) ==
  IF header = <<>>
    THEN [is_valid |-> FALSE, message |-> "No token provided", tokens |-> valid]
    ELSE LET loaded == IF valid = {} THEN LoadTokens(valid, env) ELSE valid
             ok == StripBearer(header) \in loaded IN
         [is_valid |-> ok,
          message |-> IF ok THEN "Valid token" ELSE "Invalid token",
          tokens |-> loaded]

\* lines 52-62
AuthErrorResponse ==
  [success |-> FALSE, error |-> "Authentication required",
   message |-> "Please provide a valid API token in the Authorization header"]

(* ------------------------------ secure_auth ---------------------------- *)
\* line 14: secrets.token_urlsafe(32) gives a token no earlier call gave
NewToken(store) == "token-" \o ToString(Cardinality(DOMAIN store) + 1)

\* lines 16-18: sha256, taken to be free of collisions
HashToken(token) == "sha256(" \o token \o ")"

Get(store, key) == IF key \in DOMAIN store THEN store[key] ELSE <<>>
Put(store, key, value) ==
  [k \in DOMAIN store \cup {key} |-> IF k = key THEN value ELSE store[k]]

\* mutant of Recent: the horizon is the current time, not an hour before it
RECURSIVE RecentSinceNow(_, _)
RecentSinceNow(stamps, t) ==
  IF stamps = <<>> THEN <<>>
  ELSE IF Head(stamps) > t
    THEN <<Head(stamps)>> \o RecentSinceNow(Tail(stamps), t)
    ELSE RecentSinceNow(Tail(stamps), t)

\* mutant of Recent: a timestamp exactly one hour old still counts
RECURSIVE RecentInclusive(_, _)
RecentInclusive(stamps, t) ==
  IF stamps = <<>> THEN <<>>
  ELSE IF Head(stamps) + Hour >= t
    THEN <<Head(stamps)>> \o RecentInclusive(Tail(stamps), t)
    ELSE RecentInclusive(Tail(stamps), t)

RECURSIVE Recent(_, _)
\* lines 26-29: the timestamps later than one hour before t
Recent(stamps, t) ==
  IF stamps = <<>> THEN <<>>
  ELSE IF Head(stamps) + Hour > t
    THEN <<Head(stamps)>> \o Recent(Tail(stamps), t)
    ELSE Recent(Tail(stamps), t)

\* lines 40-51
StoreToken(store, token, ip, t) ==
  Put(store, HashToken(token),
      [token |-> token, created_at |-> t, expires_at |-> t + TokenLifetime,
       client_ip |-> ip, last_used |-> <<>>, is_active |-> TRUE])

(* ------------------------- generate-token handler ---------------------- *)
\* mutant of Refused: the refused request is recorded like an issuance
RefusedCounts(pruned, ip, t) == Put(pruned, ip, Append(pruned[ip], t))

\* lines 39-50: RATE_LIMIT_STORE after a refused request is what the check
\* left of it; add_rate_limit at line 59 is not reached
Refused(pruned, ip, t) == pruned

\* lines 13-90: the preflight answer; else the rate check (which prunes the
\* ip's list), then token, store, rate entry and the 200 response, or 429
\* when limited; for requests from these addresses, while fewer than most
\* tokens have been handed out
GenerateTokenFrom(ips, most) ==
  \E method \in {"OPTIONS", "POST"}, ip \in ips :
    LET pruned == Put(RATE_LIMIT_STORE, ip, Recent(Get(RATE_LIMIT_STORE, ip), now))
        limited == Len(pruned[ip]) >= RateLimit
        token == NewToken(TOKEN_STORE) IN
    /\ method = "OPTIONS" \/ limited \/ Cardinality(DOMAIN TOKEN_STORE) < most
    /\ request' = [endpoint |-> "generate-token", method |-> method, client_ip |-> ip]
    /\ IF method = "OPTIONS"
         THEN /\ response' = [status |-> 200, body |-> [message |-> "OK"]]
              /\ UNCHANGED <<TOKEN_STORE, RATE_LIMIT_STORE>>
       ELSE IF limited
         THEN /\ RATE_LIMIT_STORE' = Refused(pruned, ip, now)
              /\ UNCHANGED TOKEN_STORE
              /\ response' = [status |-> 429,
                              body |-> [success |-> FALSE,
                                        error |-> "Rate limit exceeded",
                                        retry_after |-> RetryAfter]]
         ELSE /\ TOKEN_STORE' = StoreToken(TOKEN_STORE, token, ip, now)
              /\ RATE_LIMIT_STORE' = Put(pruned, ip, Append(pruned[ip], now))
              /\ response' = [status |-> 200,
                              body |-> [success |-> TRUE,
                                        data |-> [token |-> token,
                                                  expires_at |-> ExpiresAtText,
                                                  header |-> <<"Bearer ", token>>]]]
    /\ UNCHANGED <<now, env_tokens, VALID_TOKENS, slots, runVars>>

\* requests from any of the addresses
GenerateToken == GenerateTokenFrom(ClientIPs, MaxRated)

\* requests of one client
OneClient == {"203.0.113.7"}
IssueToken == GenerateTokenFrom(OneClient, MaxIssued)

(* --------------------------- get-slots handler ------------------------- *)
\* lines 451-457
DoOptions ==
  /\ request' = [endpoint |-> "get-slots", method |-> "OPTIONS"]
  /\ response' = [status |-> 200, body |-> <<>>]
  /\ UNCHANGED <<now, env_tokens, VALID_TOKENS, TOKEN_STORE, RATE_LIMIT_STORE,
                 slots, runVars>>

\* the Authorization headers a client may send: none, a demo token with and
\* without the prefix, the configured token, an unknown token
Headers ==
  {<<>>, <<"demo-token-12345">>}
  \cup {<<"Bearer ", t>> : t \in {"test-token-67890", "env-token-1", "wrong-token"}}

\* the header the generate-token response tells the client to send, for
\* every token handed out
IssuedHeaders == {<<"Bearer ", TOKEN_STORE[h].token>> : h \in DOMAIN TOKEN_STORE}

RECURSIVE FlattenDay(_, _)
\* lines 514-519: the entries of one day
FlattenDay(date_key, times) ==
  IF times = <<>> THEN <<>>
  ELSE <<[date |-> date_key, time |-> Head(times), gmt |-> TimezoneLabel]>>
       \o FlattenDay(date_key, Tail(times))

\* mutant of Flatten: one entry per day, for its first slot only
RECURSIVE FlattenFirstOnly(_)
FlattenFirstOnly(mapping) ==
  IF mapping = <<>> THEN <<>>
  ELSE <<[date |-> Head(mapping).date, time |-> Head(Head(mapping).slots),
          gmt |-> TimezoneLabel]>> \o FlattenFirstOnly(Tail(mapping))

RECURSIVE Flatten(_)
\* lines 512-519: the mapping's items in insertion order, the key of an
\* item being its date
Flatten(mapping) ==
  IF mapping = <<>> THEN <<>>
  ELSE FlattenDay(Head(mapping).date, Head(mapping).slots) \o Flatten(Tail(mapping))

\* lines 521-531 and 540-547
SuccessResponse(mapping) ==
  LET flattened_slots == Flatten(mapping) IN
  [status |-> 200,
   body |-> [success |-> TRUE,
             data |-> [total_slots |-> Len(flattened_slots),
                       total_days |-> Len(mapping),
                       note |-> "Found " \o ToString(Len(mapping)) \o " days with "
                                \o ToString(Len(flattened_slots))
                                \o " total booking slots",
                       slots |-> flattened_slots]]]

\* lines 549-561
ErrorResponse(status_code, message) ==
  [status |-> status_code, body |-> [success |-> FALSE, error |-> message]]

\* lines 480-484: the required fields the body lacks, in the order of the check
Missing(body) == SelectSeq(required_fields, LAMBDA f : f \notin body.names)

\* mutant of Answer: the verdict on the token is not looked at
AnswerWithoutAuth(header_ok, body, mapping) ==
  IF body.kind \in {"no_length", "malformed"}
    THEN ErrorResponse(500, "unreadable body") @@ [scraped |-> FALSE]
  ELSE IF Missing(body) # <<>>
    THEN ErrorResponse(400, "Missing required field: " \o Head(Missing(body)))
         @@ [scraped |-> FALSE]
  ELSE IF body.kind = "list"
    THEN ErrorResponse(500, "list indices must be integers or slices, not str")
         @@ [scraped |-> FALSE]
  ELSE SuccessResponse(mapping) @@ [scraped |-> TRUE]

\* lines 459-538: what do_POST answers to a request whose token was accepted
\* or not (header_ok) and whose scrape, if it comes to it, returns mapping;
\* scraped tells whether fill_form_and_get_slots was called
Answer(header_ok, body, mapping) ==
  IF ~header_ok THEN [status |-> 401, body |-> AuthErrorResponse, scraped |-> FALSE]
  ELSE IF body.kind = "no_length"
    THEN ErrorResponse(500, "int() argument must be a string or a number")
         @@ [scraped |-> FALSE]
  ELSE IF body.kind = "malformed"
    THEN ErrorResponse(500, "Expecting value: line 1 column 1 (char 0)")
         @@ [scraped |-> FALSE]
  ELSE IF Missing(body) # <<>>
    THEN ErrorResponse(400, "Missing required field: " \o Head(Missing(body)))
         @@ [scraped |-> FALSE]
  ELSE IF body.kind = "list"
    THEN ErrorResponse(500, "list indices must be integers or slices, not str")
         @@ [scraped |-> FALSE]
  ELSE SuccessResponse(mapping) @@ [scraped |-> TRUE]

\* the body of a request whose body do_POST did not come to read
Unread == [kind |-> "unread", names |-> {}]

\* lines 459-538, for requests with these headers and bodies and scrapes
\* that return these mappings; request keeps what do_POST read of the request
DoPostFrom(headers, bodies, mappings) ==
  \E header \in headers :
    LET verdict == ValidateToken(header, VALID_TOKENS, env_tokens) IN
    \E body \in IF verdict.is_valid THEN bodies ELSE {Unread} :
      \E mapping \in IF Answer(verdict.is_valid, body, <<>>).scraped
                        THEN mappings ELSE {<<>>} :
        LET answer == Answer(verdict.is_valid, body, mapping) IN
        /\ request' = [endpoint |-> "get-slots", method |-> "POST",
                       header |-> header, body |-> body]
        /\ VALID_TOKENS' = verdict.tokens
        /\ slots' = IF answer.scraped THEN <<mapping>> ELSE <<>>
        /\ response' = [status |-> answer.status, body |-> answer.body]
        /\ UNCHANGED <<now, env_tokens, TOKEN_STORE, RATE_LIMIT_STORE, runVars>>

\* any client
DoPost == DoPostFrom(Headers, Bodies, RunResults)

\* a client that sends an issued token as it was told to, with all fields
BearerPost ==
  DoPostFrom(IssuedHeaders, {[kind |-> "object", names |-> RequiredSet]}, RunResults)

(* -------------------------------- time --------------------------------- *)
\* the instants at which requests arrive: the start, the last second of the
\* first hour, an hour after the start, a token lifetime after the start, the
\* second after that, and an hour after the lifetime
Instants ==
  {0, Hour - 1, Hour, TokenLifetime, TokenLifetime + 1, TokenLifetime + Hour}

\* what the clock leaves alone
apiRest == <<env_tokens, VALID_TOKENS, TOKEN_STORE, RATE_LIMIT_STORE,
             request, slots, response>>

\* time passes to a later one of the instants
TickIn(instants) ==
  \E t \in instants :
    /\ t > now
    /\ now' = t
    /\ UNCHANGED <<apiRest, runVars>>

Tick == TickIn(Instants)

(* ---------------------------- the endpoints ---------------------------- *)
RunOnlyIdle == RunInit /\ days_to_check = 1 /\ MergeIdle /\ RaceIdle /\ DateIdle
SoloIdle == RunOnlyIdle /\ KeyIdle
RunIdle == SoloIdle /\ PairIdle

ApiInit ==
  /\ RunIdle
  /\ now = 0
  /\ env_tokens \in EnvSettings
  /\ VALID_TOKENS = {}
  /\ TOKEN_STORE = <<>>
  /\ RATE_LIMIT_STORE = <<>>
  /\ request = NoRequest
  /\ slots = <<>>
  /\ response = NoResponse

ApiNext == DoPost \/ DoOptions

ApiSpec == ApiInit /\ [][ApiNext]_vars

\* auth_utils lines 44-47
AddToken(valid, token) == valid \cup {token}

\* the tokens handed to add_token: a new one, or one of the demo tokens
AddedTokens == {"added-token-1", "demo-token-12345"}

\* a call of auth_utils.add_token, before or between requests
AddTokenCall ==
  \E token \in AddedTokens :
    /\ VALID_TOKENS' = AddToken(VALID_TOKENS, token)
    /\ UNCHANGED <<now, env_tokens, TOKEN_STORE, RATE_LIMIT_STORE, request, slots,
                   response, runVars>>

\* get-slots requests, with add_token called at any moment
AuthNext == DoPost \/ DoOptions \/ AddTokenCall

AuthSpec == ApiInit /\ [][AuthNext]_vars

TokenNext == IssueToken \/ BearerPost \/ Tick

TokenSpec == ApiInit /\ [][TokenNext]_vars

\* the token endpoint alone, asked from two addresses
RateInit == ApiInit /\ env_tokens = <<>>

RateNext == GenerateToken \/ Tick

RateSpec == RateInit /\ [][RateNext]_vars

(* ------------------ generate-token requests in flight ------------------ *)
\* Two requests of one address handled at once by one process: nothing in
\* generate-token.py or secure_auth.py orders the calls of one request
\* against those of the other, so the calls of lines 39, 56 and 59 may come
\* in any order that keeps each request's own.
\* tokens generated at most, stored or not: one more than the limit
MaxRaced == 6

\* the instants of the calls: the start, the last second of the first hour
\* and the end of it
RaceInstants == {0, Hour - 1, Hour}

\* what the calls of the handlers leave alone
raceRest == <<now, env_tokens, VALID_TOKENS, slots, pc, days_to_check, deadline,
              form, stop, pageVars, aggVars, obsVars, endVars, mergeVars, keyVars,
              pairVars, dateVars>>

RaceClient == CHOOSE ip \in OneClient : TRUE

\* tokens generated so far: those stored and those of the handlers that
\* have not stored theirs yet
Generated == Cardinality(DOMAIN TOKEN_STORE) + Cardinality({h \in Handlers : h_pc[h] = "checked"})

\* lines 39-53: is_rate_limited prunes the list and decides; a limited
\* request is answered 429, another goes on with a token no call returned
\* before
RaceCheck(h) ==
  LET ip == RaceClient
      pruned == Put(RATE_LIMIT_STORE, ip, Recent(Get(RATE_LIMIT_STORE, ip), now))
      limited == Len(pruned[ip]) >= RateLimit IN
  /\ h_pc[h] = "idle"
  /\ limited \/ Generated < MaxRaced
  /\ RATE_LIMIT_STORE' = pruned
  /\ IF limited
       THEN /\ request' = [endpoint |-> "generate-token", method |-> "POST",
                           client_ip |-> ip]
            /\ response' = [status |-> 429,
                            body |-> [success |-> FALSE,
                                      error |-> "Rate limit exceeded",
                                      retry_after |-> RetryAfter]]
            /\ UNCHANGED raceVars
       ELSE /\ h_pc' = [h_pc EXCEPT ![h] = "checked"]
            /\ h_token' = [h_token EXCEPT ![h] = "token-" \o ToString(Generated + 1)]
            /\ UNCHANGED <<request, response>>
  /\ UNCHANGED <<TOKEN_STORE, raceRest>>

\* line 56: store_token
RaceStore(h) ==
  /\ h_pc[h] = "checked"
  /\ TOKEN_STORE' = StoreToken(TOKEN_STORE, h_token[h], RaceClient, now)
  /\ h_pc' = [h_pc EXCEPT ![h] = "stored"]
  /\ UNCHANGED <<h_token, RATE_LIMIT_STORE, request, response, raceRest>>

\* lines 59-90: add_rate_limit and the 200 response
RaceAdd(h) ==
  /\ h_pc[h] = "stored"
  /\ RATE_LIMIT_STORE' = Put(RATE_LIMIT_STORE, RaceClient,
                             Append(Get(RATE_LIMIT_STORE, RaceClient), now))
  /\ request' = [endpoint |-> "generate-token", method |-> "POST",
                 client_ip |-> RaceClient]
  /\ response' = [status |-> 200,
                  body |-> [success |-> TRUE,
                            data |-> [token |-> h_token[h],
                                      expires_at |-> ExpiresAtText,
                                      header |-> <<"Bearer ", h_token[h]>>]]]
  /\ h_pc' = [h_pc EXCEPT ![h] = "idle"]
  /\ h_token' = [h_token EXCEPT ![h] = ""]
  /\ UNCHANGED <<TOKEN_STORE, raceRest>>

RaceTick == TickIn(RaceInstants)

RaceNext ==
  \/ \E h \in Handlers : RaceCheck(h) \/ RaceStore(h) \/ RaceAdd(h)
  \/ RaceTick

RaceSpec == RateInit /\ [][RaceNext]_vars

(* ======================== manage-tokens endpoint ======================= *)
\* tokens handed out at most while tokens are managed
MaxAdmin == 2

\* mutant of SecureValidate: expires_at is not looked at
SecureValidateNoExpiry(header, store, t) ==
  IF header = <<>>
    THEN [is_valid |-> FALSE, message |-> "No token provided", store |-> store]
    ELSE LET token_hash == HashToken(StripBearer(header)) IN
         IF token_hash \notin DOMAIN store
           THEN [is_valid |-> FALSE, message |-> "Invalid token", store |-> store]
         ELSE IF ~store[token_hash].is_active
           THEN [is_valid |-> FALSE, message |-> "Token has been revoked",
                 store |-> store]
         ELSE [is_valid |-> TRUE, message |-> "Valid token",
               store |-> [store EXCEPT ![token_hash].last_used = <<t>>]]

\* secure_auth lines 53-81: the verdict, and TOKEN_STORE after the call
SecureValidate(header, store, t) ==
  IF header = <<>>
    THEN [is_valid |-> FALSE, message |-> "No token provided", store |-> store]
    ELSE LET token_hash == HashToken(StripBearer(header)) IN
         IF token_hash \notin DOMAIN store
           THEN [is_valid |-> FALSE, message |-> "Invalid token", store |-> store]
         ELSE IF ~store[token_hash].is_active
           THEN [is_valid |-> FALSE, message |-> "Token has been revoked",
                 store |-> store]
         ELSE IF t > store[token_hash].expires_at
           THEN [is_valid |-> FALSE, message |-> "Token has expired",
                 store |-> store]
         ELSE [is_valid |-> TRUE, message |-> "Valid token",
               store |-> [store EXCEPT ![token_hash].last_used = <<t>>]]

\* mutant of RevokeToken: revoking a revoked token makes it active again
RevokeTokenToggles(token, store) ==
  IF token = <<>>
    THEN [success |-> FALSE, message |-> "No token provided", store |-> store]
    ELSE LET token_hash == HashToken(StripBearer(token)) IN
         IF token_hash \in DOMAIN store
           THEN [success |-> TRUE, message |-> "Token revoked successfully",
                 store |-> [store EXCEPT ![token_hash].is_active =
                                            ~store[token_hash].is_active]]
           ELSE [success |-> FALSE, message |-> "Token not found", store |-> store]

\* secure_auth lines 83-97; token is <<>> when the body names none
RevokeToken(token, store) ==
  IF token = <<>>
    THEN [success |-> FALSE, message |-> "No token provided", store |-> store]
    ELSE LET token_hash == HashToken(StripBearer(token)) IN
         IF token_hash \in DOMAIN store
           THEN [success |-> TRUE, message |-> "Token revoked successfully",
                 store |-> [store EXCEPT ![token_hash].is_active = FALSE]]
           ELSE [success |-> FALSE, message |-> "Token not found", store |-> store]

\* secure_auth lines 99-113: the items of TOKEN_STORE in the order they were
\* stored, without the token
ListTokens(store) ==
  [k \in 1..Cardinality(DOMAIN store) |->
     LET data == store[HashToken("token-" \o ToString(k))] IN
     [created_at |-> data.created_at, expires_at |-> data.expires_at,
      client_ip |-> data.client_ip, last_used |-> data.last_used,
      is_active |-> data.is_active]]

\* the headers sent to manage-tokens: none, an unknown token, any issued one
AdminHeaders == {<<>>, <<"Bearer ", "wrong-token">>} \cup IssuedHeaders

\* the bodies of a DELETE: without Content-Length, text that is no JSON, an
\* object without 'token', an object whose 'token' is an issued or an
\* unknown token
RevokeBodies ==
  {[kind |-> "no_length", token |-> <<>>], [kind |-> "malformed", token |-> <<>>],
   [kind |-> "object", token |-> <<>>], [kind |-> "object", token |-> <<"unknown-token">>]}
  \cup {[kind |-> "object", token |-> <<TOKEN_STORE[h].token>>] : h \in DOMAIN TOKEN_STORE}

\* manage-tokens lines 58-96: the answer to an authenticated DELETE, and
\* TOKEN_STORE after it
Revoke(body, store) ==
  IF body.kind = "no_length"
    THEN [status |-> 400, body |-> [success |-> FALSE, error |-> "Token required"],
          store |-> store]
  ELSE IF body.kind = "malformed"
    THEN [status |-> 500,
          body |-> [success |-> FALSE,
                    error |-> "Token management error: Expecting value"],
          store |-> store]
  ELSE LET r == RevokeToken(body.token, store) IN
       IF r.success
         THEN [status |-> 200, body |-> [success |-> TRUE, message |-> r.message],
               store |-> r.store]
         ELSE [status |-> 400, body |-> [success |-> FALSE, error |-> r.message],
               store |-> r.store]

\* manage-tokens lines 7-121
ManageTokens ==
  \E method \in {"OPTIONS", "GET", "DELETE", "POST"} :
    IF method = "OPTIONS"
      THEN /\ request' = [endpoint |-> "manage-tokens", method |-> method]
           /\ response' = [status |-> 200, body |-> [message |-> "OK"]]
           /\ UNCHANGED <<TOKEN_STORE, last_check>>
           /\ UNCHANGED <<now, env_tokens, VALID_TOKENS, RATE_LIMIT_STORE, slots,
                          MANUAL_API_KEYS, KEY_METADATA, runOnly, pairVars>>
      ELSE
        \E header \in AdminHeaders :
          LET checked == SecureValidate(header, TOKEN_STORE, now) IN
          \E body \in IF checked.is_valid /\ method = "DELETE"
                         THEN RevokeBodies ELSE {[kind |-> "unread", token |-> <<>>]} :
            LET revoked == Revoke(body, checked.store) IN
            /\ request' = [endpoint |-> "manage-tokens", method |-> method,
                           header |-> header, body |-> body]
            /\ last_check' = [fn |-> "validate_token", header |-> header, at |-> now,
                              is_valid |-> checked.is_valid,
                              message |-> checked.message]
            /\ IF ~checked.is_valid
                 THEN /\ TOKEN_STORE' = checked.store
                      /\ response' = [status |-> 401,
                                      body |-> [success |-> FALSE,
                                                error |-> "Authentication required"]]
               ELSE IF method = "GET"
                 THEN /\ TOKEN_STORE' = checked.store
                      /\ response' = [status |-> 200,
                                      body |-> [success |-> TRUE,
                                                data |-> [tokens |-> ListTokens(checked.store),
                                                          total |-> Len(ListTokens(checked.store))]]]
               ELSE IF method = "DELETE"
                 THEN /\ TOKEN_STORE' = revoked.store
                      /\ response' = [status |-> revoked.status, body |-> revoked.body]
               ELSE /\ TOKEN_STORE' = checked.store
                    /\ response' = [status |-> 405,
                                    body |-> [success |-> FALSE,
                                              error |-> "Method not allowed"]]
            /\ UNCHANGED <<now, env_tokens, VALID_TOKENS, RATE_LIMIT_STORE, slots,
                           MANUAL_API_KEYS, KEY_METADATA, runOnly, pairVars>>

\* generate-token, asked by one client
AdminIssue == GenerateTokenFrom(OneClient, MaxAdmin)

\* the instants of the requests: the start, a token lifetime later, and the
\* second after that
AdminInstants == {0, TokenLifetime, TokenLifetime + 1}
AdminTick == TickIn(AdminInstants)

AdminNext == AdminIssue \/ ManageTokens \/ AdminTick

AdminSpec == RateInit /\ [][AdminNext]_vars

(* ============================ manual_auth ============================== *)
\* The functions of manual_auth on the module's two dictionaries, called one
\* after the other in one process, as the key manager and the test server
\* call them.

\* keys generated at most
MaxKeys == 1

(* ------------------------------- inputs -------------------------------- *)
\* the names typed for a new key: one in use, one new
KeyNames == {"vendor_1", "acme"}
\* the days typed for a new key: nothing typed, so the default of 365
ExpiresDays == {PresetDays}
\* the instants of the calls: the load of the module, the expiry of
\* demo_client and the second after it
KeyInstants == {0, DemoDays * Day, DemoDays * Day + 1}

\* the Authorization headers sent: none, a key of the module with the
\* prefix, vendor_1's key without it, a key the module never had
KeyHeaders ==
  {<<>>, <<PresetKeys[1].key>>, <<"Bearer ", "cp_live_unknown">>}
  \cup {<<"Bearer ", KEY_METADATA[i].key>> : i \in DOMAIN KEY_METADATA}

(* ------------------------------ functions ------------------------------ *)
\* the place of key among the items of the dictionary, 0 when it has none
KeyIndex(meta, key) ==
  IF \E i \in DOMAIN meta : meta[i].key = key
    THEN CHOOSE i \in DOMAIN meta : meta[i].key = key
    ELSE 0

\* lines 59-60: secrets.token_urlsafe(32) gives a key no earlier call gave
NewKey(meta) == "cp_live_" \o ToString(Len(meta) + 1)

\* lines 56-76: the new item of KEY_METADATA
GenerateManualKey(meta, name, expires_days, t) ==
  Append(meta, [key |-> NewKey(meta), name |-> name, created_at |-> t,
                expires_at |-> t + expires_days * Day,
                is_active |-> TRUE, last_used |-> <<>>])

\* lines 78-100: the verdict, and KEY_METADATA after the call
ValidateManualKey(header, meta, t) ==
  IF header = <<>>
    THEN [is_valid |-> FALSE, message |-> "No API key provided", meta |-> meta]
    ELSE LET i == KeyIndex(meta, StripBearer(header)) IN
         IF i = 0
           THEN [is_valid |-> FALSE, message |-> "Invalid API key", meta |-> meta]
         ELSE IF ~meta[i].is_active
           THEN [is_valid |-> FALSE, message |-> "API key has been deactivated",
                 meta |-> meta]
         ELSE [is_valid |-> TRUE, message |-> "Valid API key",
               meta |-> [meta EXCEPT ![i].last_used = <<t>>]]

\* lines 102-107
DeactivateKey(meta, key) ==
  LET i == KeyIndex(meta, key) IN
  IF i = 0 THEN meta ELSE [meta EXCEPT ![i].is_active = FALSE]

\* lines 109-122: the active items in the order of the dictionary
ListActiveKeys(meta) == SelectSeq(meta, LAMBDA e : e.is_active)

\* manage_api_keys.py lines 66-96: entry choice of the list of active keys is
\* selected, and the first item of KEY_METADATA that has the selected name is
\* deactivated; a number outside the list changes nothing
DeactivateKeyMenu(meta, choice) ==
  LET keys == ListActiveKeys(meta) IN
  IF choice \notin DOMAIN keys THEN meta
  ELSE LET selected_key == keys[choice]
           full_key == meta[CHOOSE i \in DOMAIN meta :
                              /\ meta[i].name = selected_key.name
                              /\ \A j \in 1..(i - 1) : meta[j].name # selected_key.name].key
       IN DeactivateKey(meta, full_key)

(* ------------------------------- calls --------------------------------- *)
KeyValidate ==
  \E header \in KeyHeaders :
    LET r == ValidateManualKey(header, KEY_METADATA, now) IN
    /\ last_check' = [fn |-> "validate_manual_key", header |-> header,
                      at |-> now, is_valid |-> r.is_valid, message |-> r.message]
    /\ KEY_METADATA' = r.meta
    /\ UNCHANGED <<MANUAL_API_KEYS, now, apiRest, runOnly, pairVars>>

KeyGenerate ==
  \E name \in KeyNames, expires_days \in ExpiresDays :
    /\ Len(KEY_METADATA) < Len(PresetKeys) + MaxKeys
    /\ MANUAL_API_KEYS' = Put(MANUAL_API_KEYS, name, NewKey(KEY_METADATA))
    /\ KEY_METADATA' = GenerateManualKey(KEY_METADATA, name, expires_days, now)
    /\ UNCHANGED <<last_check, now, apiRest, runOnly, pairVars>>

KeyDeactivate ==
  \E key \in {KEY_METADATA[i].key : i \in DOMAIN KEY_METADATA} \cup {"cp_live_unknown"} :
    /\ KEY_METADATA' = DeactivateKey(KEY_METADATA, key)
    /\ UNCHANGED <<last_check, MANUAL_API_KEYS, now, apiRest, runOnly, pairVars>>

\* the key manager's "Deactivate key" with the number typed, a number past
\* the end of the list included
KeyDeactivateMenu ==
  /\ ListActiveKeys(KEY_METADATA) # <<>>
  /\ \E choice \in 1..(Len(ListActiveKeys(KEY_METADATA)) + 1) :
       KEY_METADATA' = DeactivateKeyMenu(KEY_METADATA, choice)
  /\ UNCHANGED <<last_check, MANUAL_API_KEYS, now, apiRest, runOnly, pairVars>>

KeyTick ==
  \E t \in KeyInstants :
    /\ t > now
    /\ now' = t
    /\ UNCHANGED <<keyVars, apiRest, runOnly, pairVars>>

KeyInit == RunOnlyIdle /\ PairIdle /\ ApiIdle /\ KeyIdle

KeyNext == KeyValidate \/ KeyGenerate \/ KeyDeactivate \/ KeyDeactivateMenu \/ KeyTick

KeySpec == KeyInit /\ [][KeyNext]_vars

(* ========================= the merge on its own ======================== *)
\* day candidates merged at most
MaxMerges == 3

\* the lists get_current_week_slots can hand to the merge: up to two stored
\* days, of any dates
WeekLists == UNION {[1..n -> StoredDays] : n \in 0..2}

\* lines 164-176 for one more week
MergeMore ==
  \E week \in WeekLists :
    /\ Len(m_log) + Len(week) <= MaxMerges
    /\ m_log' = m_log \o week
    /\ m_all_slots' = Merge(m_all_slots, week)
    /\ UNCHANGED <<m_first, pc, days_to_check, deadline, form, stop, pageVars,
                   aggVars, obsVars, endVars, apiVars, pairVars, keyVars, raceVars,
                   dateVars>>

MergeInit ==
  /\ RunInit /\ days_to_check = 1
  /\ ApiIdle /\ PairIdle /\ KeyIdle /\ RaceIdle /\ DateIdle
  /\ m_first \in RunResults
  /\ m_log = <<>>
  /\ m_all_slots = m_first

MergeSpec == MergeInit /\ [][MergeMore]_vars

(* --------------------------- the date keys ----------------------------- *)
\* calendar days visited at most
MaxVisited == 3

\* days of the calendar: two of one month, and the same day number in the
\* month after
CalendarDays ==
  {[number |-> "28", month |-> "Oct", name |-> "Tuesday"],
   [number |-> "29", month |-> "Oct", name |-> "Wednesday"],
   [number |-> "28", month |-> "Nov", name |-> "Friday"]}

\* what the label of the selected day can show of a day: both spans, the
\* day number alone, or no span
SpansOf(day) == {<<day.number, day.month>>, <<day.number>>, <<>>}

\* lines 376-399 and 164-176 for one more day of the calendar, not visited
\* before: the day is selected, read, stored if it has slots, and merged
VisitDay ==
  \E day \in CalendarDays, els \in SlotElLists : \E spans \in SpansOf(day) :
    LET info == GetCurrentDayInfo(TRUE, spans, <<day.name, day.month, day.number>>, els) IN
    /\ Len(v_days) < MaxVisited
    /\ \A i \in DOMAIN v_days : v_days[i].day # day
    /\ v_days' = Append(v_days, [day |-> day, info |-> info[1]])
    /\ v_all_slots' = Merge(v_all_slots, IF KeepDay(info) THEN info ELSE <<>>)
    /\ UNCHANGED <<pc, days_to_check, deadline, form, stop, pageVars, aggVars,
                   obsVars, endVars, apiVars, pairVars, keyVars, mergeVars, raceVars>>

DateInit == RunOnlyIdle /\ PairIdle /\ ApiIdle /\ KeyIdle

DateSpec == DateInit /\ [][VisitDay]_vars

(* ======================= two requests in flight ======================== *)
\* The two runs take turns at their awaits.  A run is followed week by week:
\* the collection of the visible week is one step, a navigation attempt the
\* next.  Pages are the environment: page k can show the weeks of
\* r_calendar[k], its next-week control is enabled while a later week exists.

\* weeks a page's calendar holds at most
MaxShown == 2

\* the weeks of the calendars: no day with slots, or one day with one slot
PairWeeks == {<<>>} \cup {<<d>> : d \in {x \in StoredDays : Len(x.slots) = 1}}
Calendars == UNION {[1..n -> PairWeeks] : n \in 1..MaxShown}

\* mutant of PageOf: every run drives the one page held by the module
PageOfShared(r) == 1

\* lines 40-77 and 489-490: the run launches its own browser, context and page
PageOf(r) == r

\* lines 489-503, 40-87, 145-155: do_POST creates scraper and loop, the run
\* opens its page, submits the form and starts with an empty aggregate
PairLaunch(r) ==
  /\ r_pc[r] = "idle"
  /\ r_pc' = [r_pc EXCEPT ![r] = "collect"]
  /\ r_page' = [r_page EXCEPT ![r] = PageOf(r)]
  /\ r_all_slots' = [r_all_slots EXCEPT ![r] = <<>>]
  /\ r_week_count' = [r_week_count EXCEPT ![r] = 0]
  /\ UNCHANGED <<r_calendar, r_shown, r_result, soloVars, apiVars>>

\* lines 159-178: collect the week the run's page shows and merge it
PairCollect(r) ==
  /\ r_pc[r] = "collect"
  /\ r_pc' = [r_pc EXCEPT ![r] = "navigate"]
  /\ r_all_slots' = [r_all_slots EXCEPT
                       ![r] = Merge(@, r_calendar[r_page[r]][r_shown[r_page[r]]])]
  /\ UNCHANGED <<r_calendar, r_shown, r_page, r_week_count, r_result, soloVars, apiVars>>

\* lines 180-197: click next-week on the run's page if it is enabled and
\* count the week, else break (no previous-week control, no month picker)
PairNavigate(r) ==
  /\ r_pc[r] = "navigate"
  /\ LET page == r_page[r]
         moved == r_shown[page] < Len(r_calendar[page]) IN
     /\ r_shown' = IF moved THEN [r_shown EXCEPT ![page] = @ + 1] ELSE r_shown
     /\ r_week_count' = IF moved THEN [r_week_count EXCEPT ![r] = @ + 1]
                         ELSE r_week_count
     /\ r_pc' = [r_pc EXCEPT ![r] = IF moved /\ LoopGuard(r_week_count[r] + 1)
                                       THEN "collect" ELSE "close"]
  /\ UNCHANGED <<r_calendar, r_page, r_all_slots, r_result, soloVars, apiVars>>

\* lines 203-211, 109-110, 27: return the aggregate through the three calls
PairClose(r) ==
  /\ r_pc[r] = "close"
  /\ r_pc' = [r_pc EXCEPT ![r] = "done"]
  /\ r_result' = [r_result EXCEPT ![r] = r_all_slots[r]]
  /\ UNCHANGED <<r_calendar, r_shown, r_page, r_all_slots, r_week_count, soloVars, apiVars>>

PairInit ==
  /\ SoloIdle
  /\ ApiIdle
  /\ r_calendar \in [Runs -> Calendars]
  /\ r_shown = [page \in Runs |-> 1]
  /\ r_pc = [r \in Runs |-> "idle"]
  /\ r_page = [r \in Runs |-> 0]
  /\ r_all_slots = [r \in Runs |-> <<>>]
  /\ r_week_count = [r \in Runs |-> 0]
  /\ r_result = [r \in Runs |-> <<>>]

PairNext ==
  \E r \in Runs : PairLaunch(r) \/ PairCollect(r) \/ PairNavigate(r) \/ PairClose(r)

PairSpec == PairInit /\ [][PairNext]_vars

(* ============================== claims ================================= *)
\* positions inside get_current_week_slots
CollectorPcs == {"week_enum", "week_retry", "week_nav_next", "week_nav_prev",
                 "week_month", "week_day"}

\* C1: every run ends by its own navigation bound: under fair scheduling of
\* the run's steps alone, with no help from the deadline, it eventually returns.
C1_Terminates == <>(pc = "done")

\* C2: the number of week moves made in a run (clicks on next-week,
\* previous-week or next-month, from the loop or from inside week collection)
\* never exceeds max_weeks = 3.
C2_MovesWithinCeiling == moves <= max_weeks

\* C3: as long as every check of a collection has reported zero enabled day
\* buttons, the collection has made at most one retry and no self-call, and
\* what it returns is the empty list.
C3_OneRetryThenEmpty ==
  ~saw_enabled =>
    /\ retries <= 1
    /\ depth = 0
    /\ (pc = "merge" => week_slots = <<>>)

\* C4: no step taken inside get_current_week_slots makes a week move or
\* calls get_current_week_slots again.
C4_CollectionNeverNavigates ==
  [][(pc \in CollectorPcs) => (moves' = moves /\ depth' <= depth)]_vars

UniqueDates(agg) ==
  \A i, j \in DOMAIN agg : agg[i].date = agg[j].date => i = j

\* the first day of week that carries date d
FirstWith(week, d) ==
  week[CHOOSE i \in DOMAIN week :
         /\ week[i].date = d
         /\ \A j \in 1..(i - 1) : week[j].date # d]

\* what insert-if-absent makes of aggregate agg and the week's days: agg2 and
\* the duplicate warnings dups
InsertedIfAbsent(agg, week, agg2, dups) ==
  /\ Len(agg2) >= Len(agg)
  /\ \A i \in DOMAIN agg : agg2[i] = agg[i]
  /\ UniqueDates(agg2)
  /\ Dates(agg2) = Dates(agg) \cup {week[i].date : i \in DOMAIN week}
  /\ \A i \in (DOMAIN agg2) \ (DOMAIN agg) : agg2[i] = FirstWith(week, agg2[i].date)
  /\ Len(dups) = Len(week) - (Len(agg2) - Len(agg))
  /\ \A d \in Dates(agg2) :
       Cardinality({i \in DOMAIN dups : dups[i] = d}) =
         Cardinality({i \in DOMAIN week : week[i].date = d})
           - (IF d \in Dates(agg) THEN 0 ELSE 1)

\* C5: the aggregate is insert-if-absent by date: dates stay unique, a merge
\* leaves every stored entry as it is, adds for each new date the first day
\* of the week carrying it, and logs one duplicate warning for every other day.
C5_InsertIfAbsent ==
  /\ [](UniqueDates(all_slots))
  /\ [][(pc = "merge" /\ pc' # "done") =>
          InsertedIfAbsent(all_slots, week_slots, all_slots', dup_skips')]_vars

\* a week after the first was merged, one of its days repeating a stored
\* date with another slot list, and the warning was logged
C5_Witness ==
  /\ pc = "nav_next"
  /\ week_count >= 1
  /\ \E i \in DOMAIN week_slots, j \in DOMAIN all_slots :
       /\ week_slots[i].date = all_slots[j].date
       /\ week_slots[i].slots # all_slots[j].slots
       /\ \E k \in DOMAIN dup_skips : dup_skips[k] = week_slots[i].date

\* C6: no entry of the aggregate, and none of the returned mapping, has an
\* empty slot list.
C6_NoEmptyDayStored ==
  /\ \A i \in DOMAIN all_slots : all_slots[i].slots # <<>>
  /\ \A i \in DOMAIN result : result[i].slots # <<>>

\* a week was merged whose last visited day was read with no slots
C6_Witness ==
  /\ pc = "nav_next"
  /\ day_info # <<>>
  /\ day_info[1].slots = <<>>
  /\ week_slots # <<>>
  /\ all_slots # <<>>

\* C7 as stated: once the aggregate holds days_to_check entries after a
\* merge, no navigation is attempted.
C7_StopsAtTarget == pc = "nav_next" => Len(all_slots) < days_to_check

\* C7 amended: every merge is followed by a navigation attempt, whatever the
\* size of the aggregate, and the loop is left only from a navigation step.
C7_AlwaysNavigates ==
  [][/\ (pc = "merge" => pc' \in {"nav_next", "done"})
     /\ ((pc' = "gas_return" /\ pc # "gas_return") => pc \in {"nav_next", "nav_prev"})]_vars

\* a further week is being collected although the target was met
C7_Witness ==
  /\ pc \in CollectorPcs
  /\ week_count >= 1
  /\ Len(all_slots) >= days_to_check

\* C8: when the run was ended by the deadline, what it returns is the
\* aggregate collected so far.
C8_PartialOnDeadline == (pc = "done" /\ deadline = "fired") => result = all_slots

WellFormed(r) ==
  /\ UniqueDates(r)
  /\ \A i \in DOMAIN r :
       /\ DOMAIN r[i] = {"day_name", "date", "slots"}
       /\ r[i].date \in STRING
       /\ r[i].day_name \in STRING
       /\ r[i].slots \in Seq(STRING)

\* C9: fill_form_and_get_slots never raises: a finished run has returned, and
\* what it returned is a well-formed date-keyed mapping.
C9_NeverRaises ==
  /\ outcome # "raised"
  /\ pc = "done" => (outcome = "returned" /\ WellFormed(result))

\* a fault ended the run after days had been merged
C9_Witness ==
  /\ pc = "done"
  /\ deadline = "pending"
  /\ all_slots # <<>>
  /\ result = <<>>

\* C10: a launched browser is released exactly once by the time the run
\* has ended, and never twice.
C10_ReleasedOnce ==
  /\ closes <= 1
  /\ (closes = 1) = (browser = "closed")
  /\ (pc = "done" /\ browser # "none") => browser = "closed"

\* the deadline ended a run whose browser was open
C10_Witness ==
  /\ pc = "done"
  /\ deadline = "fired"
  /\ outcome = "returned"
  /\ result = <<>>
  /\ closes = 1

\* C11: a run whose loop broke for want of any navigation before a single
\* week move was made (next-week, previous-week and month picker all
\* unavailable from the start) has collected one week: a collection starts
\* only at the loop's start or right after a week move, and the mapping
\* returned is that week's list, first day per date.
C11_OneWeekOnDeadEnd ==
  /\ [](pc = "done" /\ stop = "dead_end" /\ moves = 0
         => /\ week_count = 0
            /\ result = all_slots
            /\ InsertedIfAbsent(<<>>, week_slots, result, dup_skips))
  /\ [][(pc # "week_enum" /\ pc' = "week_enum")
          => (pc = "gas_wait" \/ moves' > moves \/ moves = MaxCount)]_vars

\* the only week showed two days with slots and no control led anywhere
C11_Witness ==
  /\ pc = "done"
  /\ stop = "dead_end"
  /\ moves = 0
  /\ Len(week_slots) = 2
  /\ result # <<>>

\* C12: the outcome tells completion from cut-off: what a run returns after
\* its navigation was exhausted or the week ceiling was reached differs from
\* what a run cut off by the deadline returns.
C12_CompletionDistinguishable ==
  (pc = "done" /\ stop \in {"dead_end", "ceiling"}) => result # OnTimeout

\* C13: the phases of a run are ordered: no day-button enumeration and no
\* week navigation before the form was submitted, and a week move is made
\* only by the loop's navigation step, after the collection and the merge of
\* the week on display.
C13_PhasesOrdered ==
  [][/\ (pc' \in CollectorPcs \cup {"merge", "nav_next", "nav_prev"} \/ moves' # moves)
          => form = "submitted"
     /\ (moves' # moves) => pc \in {"nav_next", "nav_prev"}]_vars

\* C14: a form-fill failure is fatal: the run has ended with the empty
\* mapping, and no week was collected, merged or navigated to.
C14_FormFailureFatal ==
  form = "failed" =>
    /\ pc = "done"
    /\ outcome = "returned"
    /\ result = <<>>
    /\ moves = 0
    /\ week_count = 0
    /\ all_slots = <<>>
    /\ week_slots = <<>>
    /\ day_buttons = 0

\* an input or the submit control was not found on the loaded page
C14_Witness ==
  /\ form = "failed"
  /\ pc = "done"
  /\ browser = "closed"
  /\ deadline = "pending"

RECURSIVE SlotsBefore(_, _)
\* the number of slots of the first k days of a mapping
SlotsBefore(mapping, k) ==
  IF k = 0 THEN 0 ELSE SlotsBefore(mapping, k - 1) + Len(mapping[k].slots)

\* C16: the response to a scrape that returned a mapping lists exactly one
\* {date, time, gmt} entry per (date key, slot) pair, in the order of the
\* mapping and of each day's slots, each with the fixed timezone label;
\* total_slots is the sum of the slot-list lengths and total_days the number
\* of date keys.
C16_FlattenedExactly ==
  (request.endpoint = "get-slots" /\ request.method = "POST" /\ slots # <<>>) =>
    LET mapping == slots[1]
        data == response.body.data IN
    /\ Len(data.slots) = SlotsBefore(mapping, Len(mapping))
    /\ \A k \in DOMAIN mapping : \A j \in DOMAIN mapping[k].slots :
         data.slots[SlotsBefore(mapping, k - 1) + j] =
           [date |-> mapping[k].date, time |-> mapping[k].slots[j],
            gmt |-> TimezoneLabel]
    /\ data.total_slots = SlotsBefore(mapping, Len(mapping))
    /\ data.total_days = Len(mapping)

\* the scrape returned two days, the first with two slots, the second with one
C16_Witness ==
  /\ request.endpoint = "get-slots"
  /\ request.method = "POST"
  /\ slots # <<>>
  /\ Len(slots[1]) = 2
  /\ Len(slots[1][1].slots) = 2
  /\ Len(slots[1][2].slots) = 1
  /\ response.body.data.total_days = 2
  /\ response.body.data.total_slots = 3

\* C17: a scrape that returned the empty mapping is answered with an error
\* status and success = false.
C17_EmptyScrapeIsFailure ==
  (request.endpoint = "get-slots" /\ request.method = "POST" /\ slots = << <<>> >>) =>
    (response.status >= 400 /\ response.body.success = FALSE)

\* the tokens get-slots is configured to accept
Configured == DemoTokens \cup Range(env_tokens)

\* the request handled last carried an Authorization header naming h
Authorized(h) == h # <<>> /\ h[Len(h)] \in Configured

Complete(body) == body.kind = "object" /\ RequiredSet \subseteq body.names

C20_IssuedTokenAccepted ==
  (/\ request.endpoint = "get-slots"
   /\ request.method = "POST"
   /\ \E h \in DOMAIN TOKEN_STORE :
        /\ request.header = <<"Bearer ", TOKEN_STORE[h].token>>
        /\ TOKEN_STORE[h].is_active
        /\ now <= TOKEN_STORE[h].expires_at)
    => response.status # 401

RECURSIVE Alone(_, _, _, _)
\* what a run returns that has a page with calendar c to itself: it is at
\* week i of c with week_count wc and aggregate agg
Alone(c, i, wc, agg) ==
  LET merged == Merge(agg, c[i]) IN
  IF i < Len(c) /\ wc + 1 < max_weeks THEN Alone(c, i + 1, wc + 1, merged) ELSE merged

IssuedInHour(store, ip, t) ==
  {h \in DOMAIN store : /\ store[h].client_ip = ip
                        /\ store[h].created_at + Hour > t
                        /\ store[h].created_at <= t}

\* C21: for every client address and every hour, generate-token hands out at
\* most 5 tokens: no hour that ends with an issuance holds more than 5 tokens
\* of one address, and a POST from an address that was handed 5 tokens in the
\* 3600 seconds before it is answered 429 and is handed none.
C21_FivePerHour ==
  /\ [](\A ip \in ClientIPs : \A h \in DOMAIN TOKEN_STORE :
          Cardinality(IssuedInHour(TOKEN_STORE, ip, TOKEN_STORE[h].created_at))
            <= RateLimit)
  /\ [][(/\ request'.endpoint = "generate-token"
         /\ request'.method = "POST"
         /\ now' = now
         /\ Cardinality(IssuedInHour(TOKEN_STORE, request'.client_ip, now))
              >= RateLimit)
        => (response'.status = 429 /\ TOKEN_STORE' = TOKEN_STORE)]_vars

\* an address is refused in the last second of the hour in which it was
\* handed 5 tokens, while the other address has been served
C21_Witness ==
  /\ request.endpoint = "generate-token"
  /\ request.method = "POST"
  /\ response.status = 429
  /\ now = Hour - 1
  /\ Cardinality(IssuedInHour(TOKEN_STORE, request.client_ip, now)) = RateLimit
  /\ Cardinality(DOMAIN TOKEN_STORE) > RateLimit

\* C22: manual keys expire automatically: validate_manual_key rejects a key
\* whose expires_at lies before the time of the call, deactivated or not.
C22_ExpiredKeyRejected ==
  (/\ last_check.fn = "validate_manual_key"
   /\ last_check.header # <<>>
   /\ KeyIndex(KEY_METADATA, StripBearer(last_check.header)) # 0
   /\ KEY_METADATA[KeyIndex(KEY_METADATA, StripBearer(last_check.header))].expires_at
        < last_check.at)
  => ~last_check.is_valid

\* the item of TOKEN_STORE for the token of the last validate_token call
Checked == TOKEN_STORE[HashToken(StripBearer(last_check.header))]

\* C23: a stored token that is not revoked is accepted by validate_token at
\* every time up to 30 days after its creation, and at every later time it is
\* rejected with 'Token has expired'.
C23_ThirtyDays ==
  (/\ last_check.fn = "validate_token"
   /\ last_check.header # <<>>
   /\ HashToken(StripBearer(last_check.header)) \in DOMAIN TOKEN_STORE
   /\ Checked.is_active)
  => /\ last_check.is_valid = (last_check.at <= Checked.created_at + TokenLifetime)
     /\ ~last_check.is_valid => last_check.message = "Token has expired"

\* a token is refused as expired in the second after its 30 days, having
\* been accepted at the end of the 30th day
C23_Witness ==
  /\ last_check.fn = "validate_token"
  /\ last_check.header # <<>>
  /\ HashToken(StripBearer(last_check.header)) \in DOMAIN TOKEN_STORE
  /\ Checked.is_active
  /\ last_check.message = "Token has expired"
  /\ last_check.at = Checked.created_at + TokenLifetime + 1
  /\ Checked.last_used = <<Checked.created_at + TokenLifetime>>

\* C24: a revoked token stays revoked: its item stays in the store with
\* is_active false whatever is called next, and every manage-tokens request
\* that presents it is refused by validate_token with 'Token has been
\* revoked' and answered 401.
C24_RevocationPermanent ==
  /\ [][\A h \in DOMAIN TOKEN_STORE :
          ~TOKEN_STORE[h].is_active =>
            (h \in DOMAIN TOKEN_STORE' /\ ~TOKEN_STORE'[h].is_active)]_vars
  /\ [][(/\ request'.endpoint = "manage-tokens"
         /\ request'.method # "OPTIONS"
         /\ now' = now
         /\ request'.header # <<>>
         /\ HashToken(StripBearer(request'.header)) \in DOMAIN TOKEN_STORE
         /\ ~TOKEN_STORE[HashToken(StripBearer(request'.header))].is_active)
        => (/\ last_check'.header = request'.header
            /\ ~last_check'.is_valid
            /\ last_check'.message = "Token has been revoked"
            /\ response'.status = 401)]_vars

\* a token revoked at the start is refused as revoked after its 30 days, in
\* a store that has been given another token since
C24_Witness ==
  /\ last_check.fn = "validate_token"
  /\ last_check.message = "Token has been revoked"
  /\ last_check.at = TokenLifetime + 1
  /\ response.status = 401
  /\ Checked.created_at = 0
  /\ \E h \in DOMAIN TOKEN_STORE : TOKEN_STORE[h].created_at = TokenLifetime

\* C25: the data of a successful get-slots response holds total_days,
\* days_requested and slots, and slots maps each date to an item with
\* day_name, date and slots, as test_vercel.py reads it.
C25_ResponseAsTestReads ==
  (/\ request.endpoint = "get-slots"
   /\ request.method = "POST"
   /\ response.status = 200
   /\ response.body.success)
  => /\ {"total_days", "days_requested", "slots"} \subseteq DOMAIN response.body.data
     /\ \A i \in DOMAIN response.body.data.slots :
          DOMAIN response.body.data.slots[i] = {"day_name", "date", "slots"}

\* C26: merging is idempotent and its key set does not depend on the order:
\* merging a candidate that was merged before changes nothing, each date has
\* one entry, a date the merge started without keeps the slot list of its
\* first candidate, the dates of the aggregate are those it started with and
\* those of the candidates whatever their order, and two candidates merged
\* in either order give the same dates.
C26_MergeIdempotent ==
  /\ \A i, j \in DOMAIN m_all_slots :
       m_all_slots[i].date = m_all_slots[j].date => i = j
  /\ Dates(m_all_slots) = Dates(m_first) \cup Dates(m_log)
  /\ \A k \in DOMAIN m_log :
       /\ Merge(m_all_slots, <<m_log[k]>>) = m_all_slots
       /\ Merge(Merge(m_first, <<m_log[k]>>), <<m_log[k]>>) = Merge(m_first, <<m_log[k]>>)
       /\ (/\ m_log[k].date \notin Dates(m_first)
           /\ \A j \in 1..(k - 1) : m_log[j].date # m_log[k].date)
          => \E i \in DOMAIN m_all_slots : m_all_slots[i] = m_log[k]
  /\ \A a, b \in StoredDays :
       Dates(Merge(m_all_slots, <<a, b>>)) = Dates(Merge(m_all_slots, <<b, a>>))

\* a candidate merged twice, with a candidate of another date merged in
\* between, into an empty aggregate
C26_Witness ==
  /\ m_first = <<>>
  /\ Len(m_log) = 3
  /\ m_log[1] = m_log[3]
  /\ m_log[2].date # m_log[1].date
  /\ Len(m_all_slots) = 2

\* the controls of a navigation attempt, in the order the claim gives them
\* and in the order of the code
RankAsClaimed(c) ==
  IF c = "next" THEN 1 ELSE IF c = "prev" THEN 2 ELSE IF c = "picker" THEN 3 ELSE 4
RankInCode(c) ==
  IF c = "next" THEN 1 ELSE IF c = "picker" THEN 2 ELSE IF c = "next_month" THEN 3 ELSE 4

Activated == {nav_log[i] : i \in DOMAIN nav_log} \ {"fault"}

\* C27 as claimed: in an attempt in which nothing raised, the controls are
\* activated in the order next-week, previous-week, month/year picker; the
\* previous-week control only if the next-week control was not, the picker
\* only if neither was.
C27_NextPrevPicker ==
  (\A i \in DOMAIN nav_log : nav_log[i] # "fault")
  => /\ \A i, j \in DOMAIN nav_log :
          i < j => RankAsClaimed(nav_log[i]) < RankAsClaimed(nav_log[j])
     /\ "prev" \in Activated => "next" \notin Activated
     /\ "picker" \in Activated => ("next" \notin Activated /\ "prev" \notin Activated)

\* C27: a navigation attempt of the week loop activates the controls in the
\* order next-week, month/year picker with its next-month control,
\* previous-week, each at most once; if nothing raised, the picker is opened
\* only when the next-week control was not clicked, and the previous-week
\* control is clicked only when neither the next-week nor the next-month
\* control was; an attempt that counts no week ends the loop.
C27_NextPickerPrev ==
  /\ [](/\ \A i, j \in DOMAIN nav_log :
            (i < j /\ nav_log[i] # "fault" /\ nav_log[j] # "fault")
              => RankInCode(nav_log[i]) < RankInCode(nav_log[j])
        /\ "next_month" \in Activated => "picker" \in Activated
        /\ (\A i \in DOMAIN nav_log : nav_log[i] # "fault")
             => /\ "picker" \in Activated => "next" \notin Activated
                /\ "prev" \in Activated =>
                     ("next" \notin Activated /\ "next_month" \notin Activated))
  /\ [][(pc = "nav_prev" /\ week_count' = week_count)
          => pc' \in {"gas_return", "done"}]_vars

\* the picker was opened, its next-month control was not enabled, and the
\* previous-week control was clicked after it
C27_Witness ==
  /\ pc = "week_enum"
  /\ nav_log = <<"picker", "prev">>
  /\ week_count = 1

\* C28: the week counter counts moves in either direction: a click on the
\* previous-week control after which nothing raised adds exactly one to
\* week_count, as a move forward does; no other step of the loop changes
\* week_count; and a backward move that brings week_count to 3 ends the loop
\* at the ceiling.
C28_BackwardMovesCount ==
  /\ [][(pc = "nav_prev" /\ moves' = moves + 1 /\ stop' # "fault")
          => week_count' = week_count + 1]_vars
  /\ [][(pc = "nav_next" /\ moves' = moves + 1)
          => week_count' = week_count + 1]_vars
  /\ [][week_count' = week_count
          \/ (pc \in {"nav_next", "nav_prev"} /\ week_count' = week_count + 1)]_vars
  /\ [][(pc = "nav_prev" /\ week_count' = max_weeks)
          => (pc' = "gas_return" /\ stop' = "ceiling")]_vars
  /\ [](week_count <= max_weeks)

\* the second move of a run went to the previous week and was counted
C28_Witness ==
  /\ pc = "week_enum"
  /\ nav_log = <<"prev">>
  /\ week_count = max_weeks - 1
  /\ moves = week_count

\* C29: an error at one enabled day skips that day only: every step of the
\* day loop takes one button off the list of those still to visit and goes
\* on with the rest, returning only when none is left; the days stored so
\* far stay stored; and a day read with a non-empty slot list is stored.
C29_ErrorSkipsOneDay ==
  [][(pc = "week_day" /\ pc' # "done")
      => /\ enabled_buttons' = Tail(enabled_buttons)
         /\ pc' = IF enabled_buttons' = <<>> THEN "merge" ELSE "week_day"
         /\ \/ week_slots' = week_slots
            \/ /\ day_info' # <<>>
               /\ week_slots' = Append(week_slots, day_info'[1])
         /\ (day_info' # day_info /\ day_info' # <<>> /\ day_info'[1].slots # <<>>)
              => week_slots' = Append(week_slots, day_info'[1])]_vars

\* the week is returned with the day stored first, after the read of the
\* day visited last found no selected-day element
C29_Witness ==
  /\ pc = "merge"
  /\ retries = 0 /\ depth = 0
  /\ day_buttons = MaxButtons
  /\ Len(week_slots) = 1
  /\ day_info = <<>>

\* C30: in a week whose listing found enabled day buttons, the buttons still
\* to click are distinct buttons of the page in page order; each step of the
\* day loop clicks the first of them, finishes its read and leaves the rest,
\* so that no button is clicked twice and none is left when the week is
\* returned; and a day is added at the end of the list, behind the days read
\* before it.
C30_EachEnabledDayOnceInOrder ==
  /\ [](/\ \A i \in DOMAIN enabled_buttons : enabled_buttons[i] \in 1..day_buttons
        /\ \A i, j \in DOMAIN enabled_buttons :
             i < j => enabled_buttons[i] < enabled_buttons[j]
        /\ pc = "week_day" => enabled_buttons # <<>>
        /\ pc = "merge" => enabled_buttons = <<>>
        /\ pc \in {"week_day", "merge"} =>
             Len(week_slots) + Len(enabled_buttons) <= day_buttons)
  /\ [][(pc = "week_day" /\ pc' # "done")
          => /\ enabled_buttons = <<Head(enabled_buttons)>> \o enabled_buttons'
             /\ Len(week_slots') <= Len(week_slots) + 1
             /\ \A i \in DOMAIN week_slots : week_slots'[i] = week_slots[i]]_vars

\* both buttons of a week were enabled, and their days are returned, the
\* first button's day first
C30_Witness ==
  /\ pc = "merge"
  /\ retries = 0 /\ depth = 0
  /\ day_buttons = 2
  /\ Len(week_slots) = 2
  /\ week_slots[1] # week_slots[2]

\* C31 as claimed: when the check after the settle wait finds enabled day
\* buttons, get_current_week_slots goes on to visit them.
C31_RetryVisitsFound ==
  [][(pc = "week_retry" /\ pc' # "done" /\ enabled_buttons' # <<>>)
      => pc' = "week_day"]_vars

\* C32: no recorded issuance lies in the future, the 429 response advertises
\* one hour, and a generate-token request from an address all of whose
\* recorded issuances are at least retry_after seconds old is served with a
\* token; a request that finds five issuances younger than that is refused.
\* So a client refused at time t, to which nothing was issued since, is
\* served from t + 3600 on.
C32_ServedAfterRetryAfter ==
  /\ [](/\ \A ip \in DOMAIN RATE_LIMIT_STORE :
             \A i \in DOMAIN RATE_LIMIT_STORE[ip] : RATE_LIMIT_STORE[ip][i] <= now
        /\ response.status = 429 => response.body.retry_after = Hour)
  /\ [][(request'.endpoint = "generate-token" /\ request'.method = "POST"
         /\ now' = now)
        => LET old == Get(RATE_LIMIT_STORE, request'.client_ip) IN
           /\ (\A i \in DOMAIN old : old[i] + RetryAfter <= now)
                => /\ response'.status = 200
                   /\ Cardinality(DOMAIN TOKEN_STORE') = Cardinality(DOMAIN TOKEN_STORE) + 1
           /\ Cardinality({i \in DOMAIN old : old[i] + Hour > now}) >= RateLimit
                => /\ response'.status = 429
                   /\ TOKEN_STORE' = TOKEN_STORE]_vars

\* an address that was given five tokens at the start, and so was refused
\* from then on, is given a sixth a full hour later
C32_Witness ==
  /\ now = Hour
  /\ request.endpoint = "generate-token" /\ request.method = "POST"
  /\ response.status = 200
  /\ Cardinality({h \in DOMAIN TOKEN_STORE :
                    /\ TOKEN_STORE[h].client_ip = request.client_ip
                    /\ TOKEN_STORE[h].created_at = 0}) = RateLimit
  /\ Get(RATE_LIMIT_STORE, request.client_ip) = <<Hour>>

\* the expiry stored for the token a 200 response of generate-token hands out
StoredExpiry(store, resp) == store[HashToken(resp.body.data.token)].expires_at

IssuedBy(req, resp) ==
  /\ req.endpoint = "generate-token" /\ req.method = "POST"
  /\ resp.status = 200

\* C33 as claimed: the expires_at of a generate-token response is the expiry
\* stored for the token it hands out, so that two responses that show the
\* same expires_at hand out tokens with the same stored expiry.
C33_ResponseExpiryIsStored ==
  [][(IssuedBy(request, response) /\ IssuedBy(request', response')
      /\ response'.body.data.expires_at = response.body.data.expires_at)
      => StoredExpiry(TOKEN_STORE', response') = StoredExpiry(TOKEN_STORE, response)]_vars

\* C34 as claimed: whatever entry of the list of active keys is chosen in
\* deactivate_key_menu, afterwards the key of that entry is inactive, and
\* every other key is active or not as it was before.
C34_MenuDeactivatesChosen ==
  \A choice \in DOMAIN ListActiveKeys(KEY_METADATA) :
    LET chosen == ListActiveKeys(KEY_METADATA)[choice].key
        after == DeactivateKeyMenu(KEY_METADATA, choice) IN
    \A i \in DOMAIN KEY_METADATA :
      after[i].is_active = (KEY_METADATA[i].is_active /\ KEY_METADATA[i].key # chosen)

\* C35: a generate-token request answered 429 stores no token and records
\* no timestamp: the token store is as before, and of the rate-limit lists
\* only the list of the refused address may differ, by having lost its
\* timestamps of an hour ago or older; the timestamps that count against the
\* address are the same before and after, so the moment from which it is
\* served again does not move.
C35_RefusalHasNoEffect ==
  [][(request'.endpoint = "generate-token" /\ request'.method = "POST"
      /\ now' = now /\ response'.status = 429)
     => LET ip == request'.client_ip IN
        /\ TOKEN_STORE' = TOKEN_STORE
        /\ DOMAIN RATE_LIMIT_STORE' = DOMAIN RATE_LIMIT_STORE
        /\ \A other \in DOMAIN RATE_LIMIT_STORE \ {ip} :
             RATE_LIMIT_STORE'[other] = RATE_LIMIT_STORE[other]
        /\ RATE_LIMIT_STORE'[ip]
             = SelectSeq(RATE_LIMIT_STORE[ip], LAMBDA ts : ts + Hour > now)
        /\ Len(RATE_LIMIT_STORE'[ip]) <= Len(RATE_LIMIT_STORE[ip])]_vars

\* a request refused in the last second of the hour, after refusals at the
\* start: the five issuances of the start are all that is recorded
C35_Witness ==
  /\ now = Hour - 1
  /\ request.endpoint = "generate-token" /\ request.method = "POST"
  /\ response.status = 429
  /\ RATE_LIMIT_STORE[request.client_ip] = <<0, 0, 0, 0, 0>>
  /\ Cardinality(DOMAIN TOKEN_STORE) = RateLimit

\* C36 as claimed: with requests of one address in flight at once, in
\* whatever order their calls come, no hour that ends with an issuance holds
\* more than 5 tokens of the address.
C36_FivePerHourConcurrent ==
  \A h \in DOMAIN TOKEN_STORE :
    Cardinality({k \in DOMAIN TOKEN_STORE :
                   /\ TOKEN_STORE[k].client_ip = TOKEN_STORE[h].client_ip
                   /\ TOKEN_STORE[k].created_at <= TOKEN_STORE[h].created_at
                   /\ TOKEN_STORE[k].created_at + Hour > TOKEN_STORE[h].created_at})
      <= RateLimit

\* C37 as claimed: whatever calls of add_token and validate_token came
\* before, a request that presents a token of API_TOKENS or one of the two
\* demo tokens is not turned away as unauthenticated.
C37_ConfiguredTokensAccepted ==
  (/\ request.endpoint = "get-slots" /\ request.method = "POST"
   /\ request.header # <<>>
   /\ StripBearer(request.header) \in DemoTokens \cup Range(env_tokens))
  => response.status # 401

\* C38 as claimed: every active key of KEY_METADATA is the key recorded in
\* MANUAL_API_KEYS under its name, so that no name has two active keys.
C38_OneActiveKeyPerName ==
  \A i \in DOMAIN KEY_METADATA :
    KEY_METADATA[i].is_active
      => /\ KEY_METADATA[i].name \in DOMAIN MANUAL_API_KEYS
         /\ MANUAL_API_KEYS[KEY_METADATA[i].name] = KEY_METADATA[i].key

\* the visited days that were read with slots
WithSlots == {i \in DOMAIN v_days : v_days[i].info.slots # <<>>}

\* C39 as claimed: two different calendar days visited in one run never get
\* the same date key, whatever the page showed of them, and every visited
\* day that has slots is in the aggregate.
C39_DateKeysInjective ==
  /\ \A i, j \in DOMAIN v_days :
       v_days[i].day # v_days[j].day => v_days[i].info.date # v_days[j].info.date
  /\ Len(v_all_slots) = Cardinality(WithSlots)

====
